---- MODULE Spec2Model ----
(***************************************************************************)
(* Model of the visitor-management front-end: the Alerts screen (overdue   *)
(* classification, aggregation, display order), the overdue visitor card   *)
(* (duration formatting, alert level), the Check Out screen search filter  *)
(* and the Dashboard recent-visitors list.                                 *)
(*                                                                         *)
(* Time is in milliseconds, as Date.getTime() reports it.  Strings are     *)
(* sequences of one-character strings.                                     *)
(***************************************************************************)
EXTENDS Integers, Sequences, FiniteSets, TLC

VARIABLES
    now,              \* the device clock, ms (new Date().getTime())
    db,               \* the visitors collection, in document order
    listeners,        \* AlertsScreen: live onSnapshot listeners; TRUE = has delivered the current db
    overdueVisitors,  \* AlertsScreen state: useState<Visitor[]>([])
    loading,          \* AlertsScreen state: useState(true)
    refreshing,       \* AlertsScreen state: useState(false)
    pendingRender,    \* AlertsScreen: a state change has scheduled a render
    view,             \* AlertsScreen: what the last render put on screen
    cardVisitor,      \* OverdueVisitorCard: the visitor prop
    cardOut,          \* OverdueVisitorCard: what the card shows
    coListeners,      \* CheckOutScreen: live onSnapshot listeners; TRUE = has delivered the current db
    visitors,         \* CheckOutScreen state: useState<Visitor[]>([])
    filteredVisitors, \* CheckOutScreen state: useState<Visitor[]>([])
    searchQuery,      \* CheckOutScreen state: useState('')
    coLoading,        \* CheckOutScreen state: loading, useState(true)
    coRefreshing,     \* CheckOutScreen state: refreshing, useState(false)
    coPc,             \* CheckOutScreen: "idle", or the scheduled "render" or filter "effect"
    coEffectDue,      \* CheckOutScreen: searchQuery or visitors changed since the filter effect ran
    coView,           \* CheckOutScreen: what the last render put on screen
    dashListeners,    \* DashboardScreen: live onSnapshot listeners; TRUE = has delivered the current db
    allVisitors,      \* DashboardScreen state: useState<Visitor[]>([])
    stats,            \* DashboardScreen state: the four counters
    dashLoading,      \* DashboardScreen state: loading, useState(true)
    dashRefreshing,   \* DashboardScreen state: refreshing, useState(false)
    dashPending,      \* DashboardScreen: a state change has scheduled a render
    dashView,         \* DashboardScreen: what the last render put on screen
    inFlight,         \* updateDoc calls sent to the collection and not yet settled
    checkingOut,      \* CheckOutScreen state: checkingOut, useState<string | null>(null)
    visitorType,      \* CheckIn screen state: useState<'foot' | 'vehicle'>('foot')
    gender,           \* CheckIn screen state: useState<string>('')
    tagNotGiven,      \* CheckIn screen state: useState<boolean>(false)
    formData,         \* CheckIn screen state: the text fields of the form
    ciLoading,        \* CheckIn screen state: loading, useState(false)
    ciAlert,          \* CheckIn screen: the Alert on screen, "none", "error" or "success"
    authUser,         \* auth.currentUser: None, or Some(uid)
    rawTimeIn,        \* data.timeIn of a document as the backend hands it over, None before any
    normalized,       \* per screen: None, or Some of the Date the screen made of rawTimeIn and when
    status,           \* realtime database: state of status/{uid}, "none" before any write
    connected,        \* realtime database: the value of .info/connected
    presenceListeners,\* onValue listeners on .info/connected: the value each was last called with
    rtdbWrites,       \* set() calls on status/{uid} sent and not yet settled, in order
    onDisconnectArmed,\* the server holds an onDisconnect write for status/{uid}
    signOutPc,        \* handleSignOut: "idle", or "signOut" while signOut(auth) is awaited
    navUser,          \* AppNavigator state: user, useState<User | null>(null)
    navLoading,       \* AppNavigator state: loading, useState(true)
    navPending,       \* AppNavigator: a state change has scheduled a render
    navShown,         \* AppNavigator: what the last render put on screen, "unmounted" if none
    authEvents,       \* onAuthStateChanged: users not yet handed to the navigator's callback
    lastDelivered,    \* the user the most recent auth-state callback was called with, None before any
    usersDoc,         \* Firestore users/{uid}: None, or Some of the document
    loginPc,          \* per device: where handleLogin stands
    loginFailed       \* per device: handleLogin has put up an error Alert

alertVars == <<now, db, listeners, overdueVisitors, loading, refreshing, pendingRender, view>>
cardVars == <<cardVisitor, cardOut>>
coVars == <<coListeners, visitors, filteredVisitors, searchQuery, coLoading, coRefreshing,
            coPc, coEffectDue, coView>>
dashVars == <<dashListeners, allVisitors, stats, dashLoading, dashRefreshing, dashPending, dashView>>
writeVars == <<inFlight, checkingOut>>
formVars == <<visitorType, gender, tagNotGiven, formData, ciLoading, ciAlert>>
sessionVars == <<authUser>>
timeVars == <<rawTimeIn, normalized>>
presenceVars == <<status, connected, presenceListeners, rtdbWrites, onDisconnectArmed, signOutPc>>
navVars == <<navUser, navLoading, navPending, navShown, authEvents, lastDelivered>>
loginVars == <<usersDoc, loginPc, loginFailed>>
appVars == <<timeVars, presenceVars, navVars, loginVars>>
vars == <<alertVars, cardVars, coVars, dashVars, writeVars, formVars, sessionVars, appVars>>

----------------------------------------------------------------------------
(* Bounds *)

MaxVisitors == 2      \* documents in the visitors collection
MaxListeners == 2     \* live snapshot listeners of one screen
MaxHours == 60        \* hours a card's visitor may have been checked in
MaxFiltered == 3      \* visitors in a list given to the search filter
MaxInFlight == 2      \* writes sent and not yet settled
MaxRecords == 1       \* visitor records followed from check-in to check-out
MaxPresenceListeners == 2  \* listeners on .info/connected that setupUserPresence has registered
MaxRtdbWrites == 2    \* writes to status/{uid} sent and not yet settled
MaxDevices == 2       \* devices on which the same user logs in

----------------------------------------------------------------------------
(* Time *)

MsPerMinute == 1000 * 60
MsPerHour == 1000 * 60 * 60

\* The clock reading when the Alerts screen mounts.
Now0 == 100 * MsPerHour

\* How long the visitors already in the collection at mount have been in.
InitialElapsed ==
    { 12 * MsPerHour, 12 * MsPerHour + MsPerMinute, 25 * MsPerHour }

\* The instants at which the model looks at the clock after mount.
Instants ==
    { Now0, Now0 + MsPerMinute, Now0 + 13 * MsPerHour }

----------------------------------------------------------------------------
(* Sequence helpers *)

InsertAt(s, i, e) == SubSeq(s, 1, i - 1) \o <<e>> \o SubSeq(s, i, Len(s))

\* All sequences over S of length at most n.
SeqsUpTo(S, n) == UNION { [1..k -> S] : k \in 0..n }

----------------------------------------------------------------------------
(* Strings *)

Digits == <<"0", "1", "2", "3", "4", "5", "6", "7", "8", "9">>

UpperCase == <<"A", "B", "C", "D", "E", "F", "G", "H", "I", "J", "K", "L", "M",
               "N", "O", "P", "Q", "R", "S", "T", "U", "V", "W", "X", "Y", "Z">>
LowerCase == <<"a", "b", "c", "d", "e", "f", "g", "h", "i", "j", "k", "l", "m",
               "n", "o", "p", "q", "r", "s", "t", "u", "v", "w", "x", "y", "z">>
WhiteSpace == {" ", "\t", "\n"}

ToLowerChar(c) ==
    IF \E i \in 1..Len(UpperCase) : UpperCase[i] = c
    THEN LowerCase[CHOOSE i \in 1..Len(UpperCase) : UpperCase[i] = c]
    ELSE c

\* String.prototype.toLowerCase
ToLowerCase(str) == [ i \in 1..Len(str) |-> ToLowerChar(str[i]) ]

\* String.prototype.includes
Includes(str, part) ==
    \E i \in 0..(Len(str) - Len(part)) : SubSeq(str, i + 1, i + Len(part)) = part

\* String.prototype.trim
Trim(str) ==
    LET inner == { i \in 1..Len(str) : str[i] \notin WhiteSpace }
    IN  IF inner = {} THEN <<>>
        ELSE SubSeq(str, CHOOSE i \in inner : \A j \in inner : i <= j,
                         CHOOSE i \in inner : \A j \in inner : i >= j)

RECURSIVE NumberToString(_)
\* Template-literal conversion of a non-negative integer: `${n}`
NumberToString(n) ==
    IF n < 10 THEN <<Digits[n + 1]>>
    ELSE NumberToString(n \div 10) \o <<Digits[(n % 10) + 1]>>

----------------------------------------------------------------------------
(* Visitor documents *)

\* An optional field: <<value>> when the document has it, <<>> when it does not.
Some(value) == <<value>>
None == <<>>

\* The fields a check-in form supplies.
Jane ==
    [ visitorName |-> <<"J", "a", "n", "e", " ", "D", "o", "e">>,
      phoneNumber |-> <<"0", "7", "1">>,
      idNumber |-> <<"1", "2", "3">>,
      refNumber |-> None,
      residence |-> <<"U", "m", "m", "a">>,
      institutionOccupation |-> <<"N", "u", "r", "s", "e">>,
      purposeOfVisit |-> <<"V", "i", "s", "i", "t">>,
      gender |-> Some(<<"F", "e", "m", "a", "l", "e">>),
      tagNumber |-> Some(<<"T", "7">>),
      tagNotGiven |-> Some(FALSE),
      visitorType |-> "foot" ]

Bob ==
    [ visitorName |-> <<"B", "o", "b">>,
      phoneNumber |-> <<"0", "7", "2">>,
      idNumber |-> <<"4", "5", "X">>,
      refNumber |-> Some(<<"K", "A", "A", "1">>),
      residence |-> <<"T", "h", "i", "k", "a">>,
      institutionOccupation |-> <<"S", "t", "a", "f", "f">>,
      purposeOfVisit |-> <<"W", "o", "r", "k">>,
      gender |-> Some(<<"M", "a", "l", "e">>),
      tagNumber |-> Some(<<"N", "/", "A">>),
      tagNotGiven |-> Some(TRUE),
      visitorType |-> "vehicle" ]

\* A document written before gender and tag fields existed.
Ann ==
    [ visitorName |-> <<"A", "n", "n">>,
      phoneNumber |-> <<"0", "7", "3">>,
      idNumber |-> <<"7", "8", "9">>,
      refNumber |-> None,
      residence |-> <<"J", "u", "j", "a">>,
      institutionOccupation |-> <<"C", "l", "e", "r", "k">>,
      purposeOfVisit |-> <<"T", "a", "l", "k">>,
      gender |-> None,
      tagNumber |-> None,
      tagNotGiven |-> None,
      visitorType |-> "foot" ]

Forms == {Jane, Bob, Ann}

\* Records whose tag number was rewritten on the edit form: a tag typed in for a visitor
\* checked in without one, and the tag of a visitor blanked out.
Eve == [ Bob EXCEPT !.visitorName = <<"E", "v", "e">>, !.tagNumber = Some(<<"T", "9">>) ]
Dan == [ Jane EXCEPT !.visitorName = <<"D", "a", "n">>, !.tagNumber = Some(<<>>) ]

\* The records the search filter is tried on.
FilterForms == Forms \cup {Eve, Dan}

\* A document of the collection, with the fields the screens read: the form's fields
\* and what check-in adds to them.
NewDoc(id, timeIn, form) ==
    [ id |-> id,
      timeIn |-> timeIn,
      isCheckedOut |-> FALSE,
      visitorName |-> form.visitorName,
      phoneNumber |-> form.phoneNumber,
      idNumber |-> form.idNumber,
      refNumber |-> form.refNumber,
      residence |-> form.residence,
      institutionOccupation |-> form.institutionOccupation,
      purposeOfVisit |-> form.purposeOfVisit,
      gender |-> form.gender,
      tagNumber |-> form.tagNumber,
      tagNotGiven |-> form.tagNotGiven,
      visitorType |-> form.visitorType ]

\* where('isCheckedOut', '==', false)
IsActive(doc) == doc.isCheckedOut = FALSE
ActiveVisitors(collection) == SelectSeq(collection, IsActive)

----------------------------------------------------------------------------
(* AlertsScreen: pure helpers *)

\* Math.floor((now - timeIn) / (1000 * 60 * 60)), read off the clock at the call
getHoursOverdue(timeIn) == (now - timeIn) \div MsPerHour

\* A variant that always appends the remaining hours.
formatDuration_AlwaysRemainder(hours) ==
    IF hours < 24 THEN NumberToString(hours) \o <<"h">>
    ELSE NumberToString(hours \div 24) \o <<"d", " ">> \o NumberToString(hours % 24) \o <<"h">>

formatDuration(hours) ==
    IF hours < 24 THEN NumberToString(hours) \o <<"h">>
    ELSE LET days == hours \div 24
             remainingHours == hours % 24
         IN  IF remainingHours = 0 THEN NumberToString(days) \o <<"d">>
             ELSE NumberToString(days) \o <<"d", " ">> \o NumberToString(remainingHours) \o <<"h">>

\* A variant whose 'high' threshold is exclusive.
getAlertLevel_ExclusiveHigh(hours) ==
    IF hours >= 24 THEN "critical"
    ELSE IF hours > 18 THEN "high"
    ELSE IF hours >= 12 THEN "medium"
    ELSE "low"

getAlertLevel(hours) ==
    IF hours >= 24 THEN "critical"
    ELSE IF hours >= 18 THEN "high"
    ELSE IF hours >= 12 THEN "medium"
    ELSE "low"

\* What one card of the list shows for its visitor.
OverdueVisitorCard(visitor) ==
    LET hoursOverdue == getHoursOverdue(visitor.timeIn)
    IN  [ id |-> visitor.id,
          hoursOverdue |-> hoursOverdue,
          durationText |-> formatDuration(hoursOverdue),
          alertLevel |-> getAlertLevel(hoursOverdue) ]

\* The membership test of the snapshot callback:
\* (now.getTime() - timeIn.getTime()) / (1000 * 60 * 60) > 12, a real-number quotient.
\* Variants: an inclusive threshold, the floored hour count, no threshold at all.
IsOverdue_Inclusive(visitor) == (now - visitor.timeIn) >= 12 * MsPerHour
IsOverdue_Floored(visitor) == getHoursOverdue(visitor.timeIn) > 12
IsOverdue_NoFilter(visitor) == TRUE

IsOverdue(visitor) == (now - visitor.timeIn) > 12 * MsPerHour

\* The comparator of the list's sort: compare(a, b) < 0 puts a first.
\* A variant with the operands swapped (ascending order).
CompareOverdue_Ascending(a, b) == getHoursOverdue(a.timeIn) - getHoursOverdue(b.timeIn)

CompareOverdue(a, b) == getHoursOverdue(b.timeIn) - getHoursOverdue(a.timeIn)

RECURSIVE InsertByHours(_, _)
InsertByHours(sorted, e) ==
    IF sorted = <<>> THEN <<e>>
    ELSE IF CompareOverdue(e, Head(sorted)) < 0 THEN <<e>> \o sorted
    ELSE <<Head(sorted)>> \o InsertByHours(Tail(sorted), e)

RECURSIVE SortByHoursDesc(_)
\* overdueVisitors.sort(compare): a stable sort; it reorders the array it is called on.
SortByHoursDesc(s) ==
    IF s = <<>> THEN <<>>
    ELSE InsertByHours(SortByHoursDesc(SubSeq(s, 1, Len(s) - 1)), s[Len(s)])

IsCritical(v) == getHoursOverdue(v.timeIn) >= 24
\* A variant without the upper limit.
IsHigh_NoUpperLimit(v) == getHoursOverdue(v.timeIn) >= 18

IsHigh(v) == getHoursOverdue(v.timeIn) >= 18 /\ getHoursOverdue(v.timeIn) < 24
IsMedium(v) == getHoursOverdue(v.timeIn) >= 12 /\ getHoursOverdue(v.timeIn) < 18

\* The array the FlatList is given: the result of sort() on the state array.
ListData(list) == SortByHoursDesc(list)

\* The state array after the render has evaluated the FlatList's data prop.
ListAfterRender(list) == SortByHoursDesc(list)

LoadingView == [ kind |-> "loading", total |-> 0, critical |-> 0, high |-> 0, medium |-> 0,
                 cards |-> <<>> ]

\* The screen a render produces from the state.
AlertsView ==
    IF loading THEN LoadingView
    ELSE LET data == ListData(overdueVisitors)
         IN  [ kind |-> IF Len(overdueVisitors) = 0 THEN "empty" ELSE "list",
               total |-> Len(overdueVisitors),
               critical |-> Len(SelectSeq(overdueVisitors, IsCritical)),
               high |-> Len(SelectSeq(overdueVisitors, IsHigh)),
               medium |-> Len(SelectSeq(overdueVisitors, IsMedium)),
               cards |-> IF Len(overdueVisitors) = 0 THEN <<>>
                         ELSE [ i \in 1..Len(data) |-> OverdueVisitorCard(data[i]) ] ]

----------------------------------------------------------------------------
(* The backend collaborator and the clock *)

AllStale == [ i \in 1..Len(listeners) |-> FALSE ]
CoAllStale == [ i \in 1..Len(coListeners) |-> FALSE ]
DashAllStale == [ i \in 1..Len(dashListeners) |-> FALSE ]

\* No screen has a render or an effect scheduled: those run before anything else happens.
Quiescent == ~pendingRender /\ coPc = "idle" /\ ~dashPending

\* The clock moves on.
Tick ==
    /\ Quiescent
    /\ \E t \in Instants : t > now /\ now' = t
    /\ UNCHANGED <<db, listeners, overdueVisitors, loading, refreshing, pendingRender, view>>
    /\ UNCHANGED <<cardVars, coVars, dashVars, writeVars, formVars, sessionVars, appVars>>

\* A visitor is checked in (by any client): a new document with timeIn = now and a
\* random document id, so it may land anywhere in document order.
CheckedIn(form) ==
    /\ Quiescent
    /\ Len(db) < MaxVisitors
    /\ \E p \in 1..(Len(db) + 1) :
          db' = InsertAt(db, p, NewDoc(Len(db) + 1, now, form))
    /\ listeners' = AllStale
    /\ coListeners' = CoAllStale
    /\ dashListeners' = DashAllStale
    /\ UNCHANGED <<now, overdueVisitors, loading, refreshing, pendingRender, view>>
    /\ UNCHANGED <<visitors, filteredVisitors, searchQuery, coLoading, coRefreshing, coPc,
                   coEffectDue, coView>>
    /\ UNCHANGED <<allVisitors, stats, dashLoading, dashRefreshing, dashPending, dashView>>
    /\ UNCHANGED <<cardVars, writeVars, formVars, sessionVars, appVars>>

\* A visitor is checked out (by any client): the document leaves the active query's result.
VisitorCheckedOut ==
    /\ Quiescent
    /\ \E i \in 1..Len(db) :
          /\ IsActive(db[i])
          /\ db' = [ db EXCEPT ![i].isCheckedOut = TRUE ]
    /\ listeners' = AllStale
    /\ coListeners' = CoAllStale
    /\ dashListeners' = DashAllStale
    /\ UNCHANGED <<now, overdueVisitors, loading, refreshing, pendingRender, view>>
    /\ UNCHANGED <<visitors, filteredVisitors, searchQuery, coLoading, coRefreshing, coPc,
                   coEffectDue, coView>>
    /\ UNCHANGED <<allVisitors, stats, dashLoading, dashRefreshing, dashPending, dashView>>
    /\ UNCHANGED <<cardVars, writeVars, formVars, sessionVars, appVars>>

\* The Alerts and Dashboard screens read none of the fields that tell the forms apart.
VisitorCheckedIn == CheckedIn(Jane)
AnyVisitorCheckedIn == \E form \in Forms : CheckedIn(form)

----------------------------------------------------------------------------
(* AlertsScreen: handlers *)

\* The onSnapshot callback of listener i, delivering the current query result.
OnSnapshot ==
    /\ ~pendingRender
    /\ \E i \in 1..Len(listeners) :
          /\ ~listeners[i]
          /\ listeners' = [ listeners EXCEPT ![i] = TRUE ]
    /\ overdueVisitors' = SelectSeq(ActiveVisitors(db), IsOverdue)
    /\ loading' = FALSE
    /\ refreshing' = FALSE
    /\ pendingRender' = TRUE
    /\ UNCHANGED <<now, db, view>>
    /\ UNCHANGED <<cardVars, coVars, dashVars, writeVars, formVars, sessionVars, appVars>>

\* Pull-to-refresh on the list: a further listener is attached, the earlier ones stay.
OnRefresh ==
    /\ ~pendingRender
    /\ view.kind = "list"
    /\ Len(listeners) < MaxListeners
    /\ refreshing' = TRUE
    /\ listeners' = Append(listeners, FALSE)
    /\ pendingRender' = TRUE
    /\ UNCHANGED <<now, db, overdueVisitors, loading, view>>
    /\ UNCHANGED <<cardVars, coVars, dashVars, writeVars, formVars, sessionVars, appVars>>

\* The component function runs on the new state.
Render ==
    /\ pendingRender
    /\ pendingRender' = FALSE
    /\ view' = AlertsView
    /\ overdueVisitors' = IF loading \/ Len(overdueVisitors) = 0 THEN overdueVisitors
                          ELSE ListAfterRender(overdueVisitors)
    /\ UNCHANGED <<now, db, listeners, loading, refreshing>>
    /\ UNCHANGED <<cardVars, coVars, dashVars, writeVars, formVars, sessionVars, appVars>>

----------------------------------------------------------------------------
(* CheckOutScreen *)

NoTag == <<"n", "o", " ", "t", "a", "g">>
HasTag == <<"h", "a", "s", " ", "t", "a", "g">>
NotApplicable == <<"N", "/", "A">>

\* field?.toLowerCase().includes(part)
LowerIncludes(field, part) == Includes(ToLowerCase(field), part)
OptLowerIncludes(field, part) == field # None /\ LowerIncludes(field[1], part)

\* The predicate as it was before the tag, residence, occupation, purpose and gender
\* lines were added to it.
MatchesQuery_Earlier(visitor) ==
    \/ LowerIncludes(visitor.visitorName, ToLowerCase(searchQuery))
    \/ Includes(visitor.phoneNumber, searchQuery)
    \/ Includes(visitor.idNumber, searchQuery)
    \/ OptLowerIncludes(visitor.refNumber, ToLowerCase(searchQuery))

\* A variant that looks for the query as typed in the vehicle plate as stored.
MatchesQuery_RawRefNumber(visitor) ==
    \/ LowerIncludes(visitor.visitorName, ToLowerCase(searchQuery))
    \/ Includes(visitor.phoneNumber, searchQuery)
    \/ Includes(visitor.idNumber, searchQuery)
    \/ (visitor.refNumber # None /\ Includes(visitor.refNumber[1], searchQuery))
    \/ OptLowerIncludes(visitor.tagNumber, ToLowerCase(searchQuery))
    \/ (visitor.tagNotGiven = Some(TRUE) /\ Includes(NoTag, ToLowerCase(searchQuery)))
    \/ /\ visitor.tagNotGiven # Some(TRUE)
       /\ visitor.tagNumber # None
       /\ visitor.tagNumber # Some(<<>>)
       /\ visitor.tagNumber # Some(NotApplicable)
       /\ Includes(HasTag, ToLowerCase(searchQuery))
    \/ LowerIncludes(visitor.residence, ToLowerCase(searchQuery))
    \/ LowerIncludes(visitor.institutionOccupation, ToLowerCase(searchQuery))
    \/ LowerIncludes(visitor.purposeOfVisit, ToLowerCase(searchQuery))
    \/ OptLowerIncludes(visitor.gender, ToLowerCase(searchQuery))

\* A variant whose "has tag" line does not look at tagNotGiven.
MatchesQuery_HasTagIgnoresFlag(visitor) ==
    \/ MatchesQuery_RawRefNumber(visitor)
    \/ OptLowerIncludes(visitor.refNumber, ToLowerCase(searchQuery))
    \/ /\ visitor.tagNumber # None
       /\ visitor.tagNumber # Some(<<>>)
       /\ visitor.tagNumber # Some(NotApplicable)
       /\ Includes(HasTag, ToLowerCase(searchQuery))

\* The predicate given to visitors.filter, for the query in the search box.
MatchesQuery(visitor) ==
    LET lowercasedQuery == ToLowerCase(searchQuery)
    IN  \/ LowerIncludes(visitor.visitorName, lowercasedQuery)
        \/ Includes(visitor.phoneNumber, searchQuery)
        \/ Includes(visitor.idNumber, searchQuery)
        \/ OptLowerIncludes(visitor.refNumber, lowercasedQuery)
        \/ OptLowerIncludes(visitor.tagNumber, lowercasedQuery)
        \/ (visitor.tagNotGiven = Some(TRUE) /\ Includes(NoTag, lowercasedQuery))
        \/ /\ visitor.tagNotGiven # Some(TRUE)
           /\ visitor.tagNumber # None
           /\ visitor.tagNumber # Some(<<>>)
           /\ visitor.tagNumber # Some(NotApplicable)
           /\ Includes(HasTag, lowercasedQuery)
        \/ LowerIncludes(visitor.residence, lowercasedQuery)
        \/ LowerIncludes(visitor.institutionOccupation, lowercasedQuery)
        \/ LowerIncludes(visitor.purposeOfVisit, lowercasedQuery)
        \/ OptLowerIncludes(visitor.gender, lowercasedQuery)

\* A variant that compares the query itself with the empty string.
IsBlankQuery_NoTrim(q) == q = <<>>

\* The test of the filter effect for a query that filters nothing.
IsBlankQuery(q) == Trim(q) = <<>>

\* A variant that hands the matches over last match first.
FilterResult_Reversed ==
    IF IsBlankQuery(searchQuery) THEN visitors
    ELSE LET filtered == SelectSeq(visitors, MatchesQuery)
         IN  [ i \in 1..Len(filtered) |-> filtered[Len(filtered) + 1 - i] ]

\* What the filter effect gives setFilteredVisitors.
FilterResult ==
    IF IsBlankQuery(searchQuery) THEN visitors
    ELSE SelectSeq(visitors, MatchesQuery)

CoLoadingView == [ kind |-> "loading", list |-> <<>>, query |-> <<>> ]

\* The screen a render produces from the state.
CheckOutView ==
    IF coLoading THEN CoLoadingView
    ELSE [ kind |-> IF Len(filteredVisitors) = 0 THEN "empty" ELSE "list",
           list |-> filteredVisitors,
           query |-> searchQuery ]

\* What is typed into the search box.
Queries ==
    { <<>>, <<" ">>, <<" ", "\t">>, <<"j", "a", "n", "e">>, <<"J", "A", "N", "E">>,
      <<"a">>, <<"k", "a", "a">>, <<"K", "A", "A">>, <<"0", "7", "2">>, <<"7">>,
      <<"U", "M", "M", "A">>, <<"c", "l", "e", "r", "k">>, <<"w", "o", "r", "k">>,
      <<"f", "e", "m">>, <<"n">>, <<"n", "/", "a">>, <<"N", "/", "A">>, <<"t", "7">>,
      HasTag, <<"H", "a", "s">>, NoTag, <<"n", "o", " ">>, <<"k">>, <<"x">>, <<"X">>,
      <<"z">> }

\* The onSnapshot callback of a listener, delivering the current query result.
CoOnSnapshot ==
    /\ coPc = "idle"
    /\ \E i \in 1..Len(coListeners) :
          /\ ~coListeners[i]
          /\ coListeners' = [ coListeners EXCEPT ![i] = TRUE ]
    /\ visitors' = ActiveVisitors(db)
    /\ filteredVisitors' = ActiveVisitors(db)
    /\ coLoading' = FALSE
    /\ coRefreshing' = FALSE
    /\ coPc' = "render"
    /\ coEffectDue' = TRUE
    /\ UNCHANGED <<searchQuery, coView>>
    /\ UNCHANGED <<alertVars, cardVars, dashVars, writeVars, formVars, sessionVars, appVars>>

\* The queries typed while snapshots keep arriving.
TypedQueries == { <<>>, <<" ">>, <<"j", "a", "n", "e">>, <<"a">> }

\* onChangeText={setSearchQuery}, and clearSearch for the empty query.
SetSearchQuery(q) ==
    /\ coPc = "idle"
    /\ coView.kind # "loading"
    /\ q # searchQuery
    /\ searchQuery' = q
    /\ coPc' = "render"
    /\ coEffectDue' = TRUE
    /\ UNCHANGED <<coListeners, visitors, filteredVisitors, coLoading, coRefreshing, coView>>
    /\ UNCHANGED <<alertVars, cardVars, dashVars, writeVars, formVars, sessionVars, appVars>>

\* Pull-to-refresh on the list: a further listener is attached, the earlier ones stay.
CoOnRefresh ==
    /\ coPc = "idle"
    /\ coView.kind = "list"
    /\ Len(coListeners) < MaxListeners
    /\ coRefreshing' = TRUE
    /\ coListeners' = Append(coListeners, FALSE)
    /\ coPc' = "render"
    /\ UNCHANGED <<visitors, filteredVisitors, searchQuery, coLoading, coEffectDue, coView>>
    /\ UNCHANGED <<alertVars, cardVars, dashVars, writeVars, formVars, sessionVars, appVars>>

\* The component function runs on the new state; effects whose dependencies changed follow.
CoRender ==
    /\ coPc = "render"
    /\ coView' = CheckOutView
    /\ coPc' = IF coEffectDue THEN "effect" ELSE "idle"
    /\ UNCHANGED <<coListeners, visitors, filteredVisitors, searchQuery, coLoading, coRefreshing,
                   coEffectDue>>
    /\ UNCHANGED <<alertVars, cardVars, dashVars, writeVars, formVars, sessionVars, appVars>>

\* useEffect(..., [searchQuery, visitors]): a render follows unless the state is given
\* the array it already holds.
CoFilterEffect ==
    /\ coPc = "effect"
    /\ filteredVisitors' = FilterResult
    /\ coEffectDue' = FALSE
    /\ coPc' = IF IsBlankQuery(searchQuery) /\ filteredVisitors = visitors THEN "idle" ELSE "render"
    /\ UNCHANGED <<coListeners, visitors, searchQuery, coLoading, coRefreshing, coView>>
    /\ UNCHANGED <<alertVars, cardVars, dashVars, writeVars, formVars, sessionVars, appVars>>

----------------------------------------------------------------------------
(* DashboardScreen *)

MsPerDay == 24 * MsPerHour
RecentCount == 5

\* new Date(now.getFullYear(), now.getMonth(), now.getDate()), the device on UTC
StartOfDay(t) == t - (t % MsPerDay)

IsCheckedInToday(v) == v.timeIn >= StartOfDay(now)
IsCheckedInBeforeToday(v) == v.timeIn < StartOfDay(now)

\* calculateStats(visitorsData)
CalculateStats(list) ==
    [ todayCheckedIn |-> Len(SelectSeq(list, IsCheckedInToday)),
      totalActive |-> Len(ActiveVisitors(list)),
      overdue |-> Len(SelectSeq(ActiveVisitors(list), IsCheckedInBeforeToday)),
      totalVisitors |-> Len(list) ]

\* The comparator of getRecentVisitors: compare(a, b) < 0 puts a first.
CompareRecent(a, b) == b.timeIn - a.timeIn

RECURSIVE InsertByTimeIn(_, _)
InsertByTimeIn(sorted, e) ==
    IF sorted = <<>> THEN <<e>>
    ELSE IF CompareRecent(e, Head(sorted)) < 0 THEN <<e>> \o sorted
    ELSE <<Head(sorted)>> \o InsertByTimeIn(Tail(sorted), e)

RECURSIVE SortByTimeInDesc(_)
\* allVisitors.sort(compare): a stable sort; it reorders the array it is called on.
SortByTimeInDesc(s) ==
    IF s = <<>> THEN <<>>
    ELSE InsertByTimeIn(SortByTimeInDesc(SubSeq(s, 1, Len(s) - 1)), s[Len(s)])

\* getRecentVisitors(): allVisitors.sort(...).slice(0, 5)
GetRecentVisitors(list) ==
    LET sorted == SortByTimeInDesc(list)
    IN  SubSeq(sorted, 1, IF Len(sorted) < RecentCount THEN Len(sorted) ELSE RecentCount)

\* The state array after getRecentVisitors() has run on it.
AllVisitorsAfterRender(list) == SortByTimeInDesc(list)

NoStats == [ todayCheckedIn |-> 0, totalActive |-> 0, overdue |-> 0, totalVisitors |-> 0 ]
DashLoadingView == [ kind |-> "loading", stats |-> NoStats, recent |-> <<>> ]

\* The screen a render produces from the state.
DashboardView ==
    IF dashLoading THEN DashLoadingView
    ELSE [ kind |-> "dashboard", stats |-> stats, recent |-> GetRecentVisitors(allVisitors) ]

\* The onSnapshot callback of a listener, delivering the whole collection.
DashOnSnapshot ==
    /\ ~dashPending
    /\ \E i \in 1..Len(dashListeners) :
          /\ ~dashListeners[i]
          /\ dashListeners' = [ dashListeners EXCEPT ![i] = TRUE ]
    /\ allVisitors' = db
    /\ stats' = CalculateStats(db)
    /\ dashLoading' = FALSE
    /\ dashRefreshing' = FALSE
    /\ dashPending' = TRUE
    /\ UNCHANGED dashView
    /\ UNCHANGED <<alertVars, cardVars, coVars, writeVars, formVars, sessionVars, appVars>>

\* Pull-to-refresh: a further listener is attached, the earlier ones stay.
DashOnRefresh ==
    /\ ~dashPending
    /\ dashView.kind = "dashboard"
    /\ Len(dashListeners) < MaxListeners
    /\ dashRefreshing' = TRUE
    /\ dashListeners' = Append(dashListeners, FALSE)
    /\ dashPending' = TRUE
    /\ UNCHANGED <<allVisitors, stats, dashLoading, dashView>>
    /\ UNCHANGED <<alertVars, cardVars, coVars, writeVars, formVars, sessionVars, appVars>>

\* The component function runs on the new state.
DashRender ==
    /\ dashPending
    /\ dashPending' = FALSE
    /\ dashView' = DashboardView
    /\ allVisitors' = IF dashLoading THEN allVisitors ELSE AllVisitorsAfterRender(allVisitors)
    /\ UNCHANGED <<dashListeners, stats, dashLoading, dashRefreshing>>
    /\ UNCHANGED <<alertVars, cardVars, coVars, writeVars, formVars, sessionVars, appVars>>

----------------------------------------------------------------------------
(* OverdueVisitorCard on its own *)

NoCard == [ id |-> 0, hoursOverdue |-> 0, durationText |-> <<>>, alertLevel |-> "none" ]
NoVisitor == NewDoc(0, 0, Jane)

RenderCard ==
    /\ cardVisitor # NoVisitor
    /\ cardOut = NoCard
    /\ cardOut' = OverdueVisitorCard(cardVisitor)
    /\ UNCHANGED cardVisitor
    /\ UNCHANGED <<alertVars, coVars, dashVars, writeVars, formVars, sessionVars, appVars>>

----------------------------------------------------------------------------
(* Specifications *)

\* The visitors the collection may hold when the screen mounts, in document order.
DbOfElapsed(e) == [ i \in 1..Len(e) |-> NewDoc(i, Now0 - e[i], Jane) ]
DbOfHours(h) == DbOfElapsed([ i \in 1..Len(h) |-> h[i] * MsPerHour ])
ExampleCounts == <<13, 19, 25, 11, 24>>
ExampleOrder == <<13, 25, 19>>
InitialDbs ==
    { DbOfElapsed(e) : e \in SeqsUpTo(InitialElapsed, MaxVisitors) }
    \cup { DbOfHours(ExampleCounts), DbOfHours(ExampleOrder) }

\* A screen that is not mounted: no listener, nothing scheduled.
AlertsUnmounted ==
    /\ listeners = <<>>
    /\ overdueVisitors = <<>>
    /\ loading = TRUE
    /\ refreshing = FALSE
    /\ pendingRender = FALSE
    /\ view = LoadingView

CheckOutUnmounted ==
    /\ coListeners = <<>>
    /\ visitors = <<>>
    /\ filteredVisitors = <<>>
    /\ searchQuery = <<>>
    /\ coLoading = TRUE
    /\ coRefreshing = FALSE
    /\ coPc = "idle"
    /\ coEffectDue = FALSE
    /\ coView = CoLoadingView

DashboardUnmounted ==
    /\ dashListeners = <<>>
    /\ allVisitors = <<>>
    /\ stats = NoStats
    /\ dashLoading = TRUE
    /\ dashRefreshing = FALSE
    /\ dashPending = FALSE
    /\ dashView = DashLoadingView

\* auth.currentUser.uid of the signed-in guard
CurrentUser == "guard"

NoCardShown == cardVisitor = NoVisitor /\ cardOut = NoCard

\* No write is on its way and no check-out button shows its spinner.
NoWrites == inFlight = {} /\ checkingOut = None

\* The check-in form as it mounts.
EmptyFormData ==
    [ visitorName |-> <<>>,
      phoneNumber |-> <<>>,
      idNumber |-> <<>>,
      refNumber |-> <<>>,
      residence |-> <<>>,
      institutionOccupation |-> <<>>,
      purposeOfVisit |-> <<>>,
      tagNumber |-> <<>> ]

EmptyForm ==
    /\ visitorType = "foot"
    /\ gender = <<>>
    /\ tagNotGiven = FALSE
    /\ formData = EmptyFormData
    /\ ciLoading = FALSE
    /\ ciAlert = "none"

\* A guard is signed in.
GuardSignedIn == authUser = Some(CurrentUser)

\* The three screens that read timeIn from a snapshot.
Screens == { "Alerts", "Dashboard", "CheckOut" }

\* No timestamp has been read from the backend.
NothingNormalized ==
    /\ rawTimeIn = None
    /\ normalized = [ screen \in Screens |-> None ]

\* Presence before setupUserPresence has run.
NoPresence ==
    /\ status = "none"
    /\ connected = TRUE
    /\ presenceListeners = <<>>
    /\ rtdbWrites = <<>>
    /\ onDisconnectArmed = FALSE
    /\ signOutPc = "idle"

\* The devices the user logs in on; the navigator and the session are those of the first.
Devices == 1..MaxDevices
ThisDevice == 1

\* The navigator is not on screen.
NavigatorUnmounted ==
    /\ navUser = None
    /\ navLoading = TRUE
    /\ navPending = FALSE
    /\ navShown = "unmounted"
    /\ authEvents = <<>>
    /\ lastDelivered = None

\* No login has been started and users/{uid} does not exist.
NoLogins ==
    /\ usersDoc = None
    /\ loginPc = [ d \in Devices |-> "idle" ]
    /\ loginFailed = [ d \in Devices |-> FALSE ]

\* What the other specifications leave alone.
AppIdle == NothingNormalized /\ NoPresence /\ NavigatorUnmounted /\ NoLogins

\* A screen after mount: the first listener is attached, nothing delivered yet.
AlertsMounted ==
    /\ listeners = <<FALSE>>
    /\ overdueVisitors = <<>>
    /\ loading = TRUE
    /\ refreshing = FALSE
    /\ pendingRender = FALSE
    /\ view = LoadingView

CheckOutMounted ==
    /\ coListeners = <<FALSE>>
    /\ visitors = <<>>
    /\ filteredVisitors = <<>>
    /\ searchQuery = <<>>
    /\ coLoading = TRUE
    /\ coRefreshing = FALSE
    /\ coPc = "idle"
    /\ coEffectDue = FALSE
    /\ coView = CoLoadingView

DashboardMounted ==
    /\ dashListeners = <<FALSE>>
    /\ allVisitors = <<>>
    /\ stats = NoStats
    /\ dashLoading = TRUE
    /\ dashRefreshing = FALSE
    /\ dashPending = FALSE
    /\ dashView = DashLoadingView

\* The Alerts screen.
Init ==
    /\ now = Now0
    /\ db \in InitialDbs
    /\ AlertsMounted
    /\ CheckOutUnmounted
    /\ DashboardUnmounted
    /\ NoCardShown
    /\ NoWrites
    /\ EmptyForm
    /\ GuardSignedIn
    /\ AppIdle

Next ==
    \/ Tick
    \/ VisitorCheckedIn
    \/ VisitorCheckedOut
    \/ OnSnapshot
    \/ OnRefresh
    \/ Render

Spec == Init /\ [][Next]_vars

\* One card, for every whole and fractional number of hours up to MaxHours.
InitCard ==
    /\ now = Now0
    /\ db = <<>>
    /\ AlertsUnmounted
    /\ CheckOutUnmounted
    /\ DashboardUnmounted
    /\ \E h \in 0..MaxHours, r \in {0, 1, MsPerHour - 1} :
          cardVisitor = NewDoc(1, Now0 - h * MsPerHour - r, Jane)
    /\ cardOut = NoCard
    /\ NoWrites
    /\ EmptyForm
    /\ GuardSignedIn
    /\ AppIdle

NextCard == RenderCard

SpecCard == InitCard /\ [][NextCard]_vars

\* The Check Out screen; the collection starts with any visitors of the three kinds.
FormDbs == { [ i \in 1..Len(f) |-> NewDoc(i, Now0, f[i]) ] : f \in SeqsUpTo(Forms, MaxVisitors) }

InitCheckOut ==
    /\ now = Now0
    /\ db \in FormDbs
    /\ AlertsUnmounted
    /\ CheckOutMounted
    /\ DashboardUnmounted
    /\ NoCardShown
    /\ NoWrites
    /\ EmptyForm
    /\ GuardSignedIn
    /\ AppIdle

NextCheckOut ==
    \/ AnyVisitorCheckedIn
    \/ VisitorCheckedOut
    \/ CoOnSnapshot
    \/ \E q \in TypedQueries : SetSearchQuery(q)
    \/ CoOnRefresh
    \/ CoRender
    \/ CoFilterEffect

SpecCheckOut == InitCheckOut /\ [][NextCheckOut]_vars

\* The collections the filter is tried on.
FilterDbs == { [ i \in 1..Len(f) |-> NewDoc(i, Now0, f[i]) ] : f \in SeqsUpTo(FilterForms, MaxFiltered) }

\* The search filter on its own: a snapshot has delivered the visitors, the query is in
\* the search box, and the filter effect is about to run.  The filtered list still holds
\* what the previous run left: everything, or nothing.
InitFilter ==
    /\ now = Now0
    /\ db \in FilterDbs
    /\ AlertsUnmounted
    /\ DashboardUnmounted
    /\ NoCardShown
    /\ NoWrites
    /\ EmptyForm
    /\ GuardSignedIn
    /\ AppIdle
    /\ coListeners = <<TRUE>>
    /\ visitors = ActiveVisitors(db)
    /\ filteredVisitors \in { ActiveVisitors(db), <<>> }
    /\ searchQuery \in Queries
    /\ coLoading = FALSE
    /\ coRefreshing = FALSE
    /\ coPc = "effect"
    /\ coEffectDue = TRUE
    /\ coView = CheckOutView

NextFilter ==
    \/ CoFilterEffect
    \/ CoRender

SpecFilter == InitFilter /\ [][NextFilter]_vars

\* The three screens of the tab navigator, each followed on its own.
InitViews ==
    /\ now = Now0
    /\ db \in { DbOfElapsed(e) : e \in SeqsUpTo({13 * MsPerHour, 25 * MsPerHour}, MaxVisitors) }
    /\ \/ AlertsMounted /\ CheckOutUnmounted /\ DashboardUnmounted
       \/ AlertsUnmounted /\ CheckOutMounted /\ DashboardUnmounted
       \/ AlertsUnmounted /\ CheckOutUnmounted /\ DashboardMounted
    /\ NoCardShown
    /\ NoWrites
    /\ EmptyForm
    /\ GuardSignedIn
    /\ AppIdle

NextViews ==
    \/ VisitorCheckedIn
    \/ VisitorCheckedOut
    \/ OnSnapshot
    \/ OnRefresh
    \/ Render
    \/ CoOnSnapshot
    \/ \E q \in TypedQueries : SetSearchQuery(q)
    \/ CoOnRefresh
    \/ CoRender
    \/ CoFilterEffect
    \/ DashOnSnapshot
    \/ DashOnRefresh
    \/ DashRender

SpecViews == InitViews /\ [][NextViews]_vars

\* The screens until sign-out, and the listeners that outlive them.
SignedIn == view.kind # "unmounted"

\* What the cleanup of useEffect(() => { const unsubscribe = fetch(); return unsubscribe },
\* []) releases: the listener attached at mount, the first of the screen's listeners.
AfterCleanup(screenListeners) ==
    IF screenListeners = <<>> THEN <<>> ELSE Tail(screenListeners)

\* onAuthStateChanged delivers null: the navigator drops the tab navigator, the screens
\* unmount and their effect cleanups run.
SignedOut ==
    /\ SignedIn
    /\ listeners' = AfterCleanup(listeners)
    /\ coListeners' = AfterCleanup(coListeners)
    /\ dashListeners' = AfterCleanup(dashListeners)
    /\ view' = [ LoadingView EXCEPT !.kind = "unmounted" ]
    /\ coView' = [ CoLoadingView EXCEPT !.kind = "unmounted" ]
    /\ dashView' = [ DashLoadingView EXCEPT !.kind = "unmounted" ]
    /\ pendingRender' = FALSE
    /\ coPc' = "idle"
    /\ coEffectDue' = FALSE
    /\ dashPending' = FALSE
    /\ UNCHANGED <<now, db, overdueVisitors, loading, refreshing>>
    /\ UNCHANGED <<visitors, filteredVisitors, searchQuery, coLoading, coRefreshing>>
    /\ UNCHANGED <<allVisitors, stats, dashLoading, dashRefreshing>>
    /\ UNCHANGED <<cardVars, writeVars, formVars, sessionVars, appVars>>

\* The callback of a listener that is still registered runs after its screen is gone:
\* its setState calls find no component.
LeakedSnapshot ==
    /\ ~SignedIn
    /\ \/ /\ \E i \in 1..Len(listeners) :
                /\ ~listeners[i]
                /\ listeners' = [ listeners EXCEPT ![i] = TRUE ]
          /\ UNCHANGED <<coListeners, dashListeners>>
       \/ /\ \E i \in 1..Len(coListeners) :
                /\ ~coListeners[i]
                /\ coListeners' = [ coListeners EXCEPT ![i] = TRUE ]
          /\ UNCHANGED <<listeners, dashListeners>>
       \/ /\ \E i \in 1..Len(dashListeners) :
                /\ ~dashListeners[i]
                /\ dashListeners' = [ dashListeners EXCEPT ![i] = TRUE ]
          /\ UNCHANGED <<listeners, coListeners>>
    /\ UNCHANGED <<now, db, overdueVisitors, loading, refreshing, pendingRender, view>>
    /\ UNCHANGED <<visitors, filteredVisitors, searchQuery, coLoading, coRefreshing, coPc,
                   coEffectDue, coView>>
    /\ UNCHANGED <<allVisitors, stats, dashLoading, dashRefreshing, dashPending, dashView>>
    /\ UNCHANGED <<cardVars, writeVars, formVars, sessionVars, appVars>>

NextLifecycle ==
    \/ SignedIn /\ NextViews
    \/ SignedOut
    \/ LeakedSnapshot

SpecLifecycle == InitViews /\ [][NextLifecycle]_vars

----------------------------------------------------------------------------
(* Visitor records: check-in, check-out and edit *)

\* The document handleCheckIn gives addDoc: the form's fields, timeIn, checkedInBy and
\* isCheckedOut false; no timeOut, no checkedOutBy.
NewRecord(id, timeIn, form) ==
    NewDoc(id, timeIn, form) @@
    [ checkedInBy |-> CurrentUser,
      timeOut |-> None,
      checkedOutBy |-> None,
      updatedAt |-> None,
      updatedBy |-> None ]

\* What is in the edit form when Update is pressed.
EditInputs ==
    { [ visitorName |-> <<"J", "a", "n", "e", " ", "D">>,
        phoneNumber |-> <<"0", "7", "5">>,
        idNumber |-> <<"1", "2", "3">>,
        residence |-> <<"R", "u", "i", "r", "u">>,
        institutionOccupation |-> <<"N", "u", "r", "s", "e">>,
        purposeOfVisit |-> <<"V", "i", "s", "i", "t">>,
        tagNumber |-> <<"T", "9">>,
        gender |-> <<"O", "t", "h", "e", "r">> ],
      [ visitorName |-> <<>>,
        phoneNumber |-> <<"0", "7", "2">>,
        idNumber |-> <<"4", "5", "X">>,
        residence |-> <<"T", "h", "i", "k", "a">>,
        institutionOccupation |-> <<"S", "t", "a", "f", "f">>,
        purposeOfVisit |-> <<"W", "o", "r", "k">>,
        tagNumber |-> <<"N", "/", "A">>,
        gender |-> <<"M", "a", "l", "e">> ] }

\* A variant of the check-out update that leaves timeOut out.
CheckOutUpdate_FlagOnly(record, write) ==
    [ record EXCEPT !.isCheckedOut = TRUE, !.checkedOutBy = Some(write.by) ]

\* updateDoc(visitorRef, { timeOut, isCheckedOut: true, checkedOutBy }) applied to the
\* document: the three fields are written together, whatever the document holds.
CheckOutUpdate(record, write) ==
    [ record EXCEPT !.timeOut = Some(write.timeOut),
                    !.isCheckedOut = TRUE,
                    !.checkedOutBy = Some(write.by) ]

\* A variant of the edit update that also writes the form's default for the plate.
EditUpdate_WritesRefNumber(record, write) ==
    [ record EXCEPT !.visitorName = write.data.visitorName,
                    !.phoneNumber = write.data.phoneNumber,
                    !.idNumber = write.data.idNumber,
                    !.refNumber = Some(<<>>),
                    !.residence = write.data.residence,
                    !.institutionOccupation = write.data.institutionOccupation,
                    !.purposeOfVisit = write.data.purposeOfVisit,
                    !.tagNumber = Some(write.data.tagNumber),
                    !.gender = Some(write.data.gender),
                    !.updatedAt = Some(write.at),
                    !.updatedBy = Some(write.by) ]

\* updateDoc(visitorRef, { visitorName, ..., gender, updatedAt, updatedBy }) applied to
\* the document.
EditUpdate(record, write) ==
    [ record EXCEPT !.visitorName = write.data.visitorName,
                    !.phoneNumber = write.data.phoneNumber,
                    !.idNumber = write.data.idNumber,
                    !.residence = write.data.residence,
                    !.institutionOccupation = write.data.institutionOccupation,
                    !.purposeOfVisit = write.data.purposeOfVisit,
                    !.tagNumber = Some(write.data.tagNumber),
                    !.gender = Some(write.data.gender),
                    !.updatedAt = Some(write.at),
                    !.updatedBy = Some(write.by) ]

\* The collection after the update of a check-out, and of an edit, has reached the
\* document the write names.
AfterCheckOut(collection, write) ==
    [ i \in 1..Len(collection) |->
        IF collection[i].id = write.id THEN CheckOutUpdate(collection[i], write)
        ELSE collection[i] ]

AfterEdit(collection, write) ==
    [ i \in 1..Len(collection) |->
        IF collection[i].id = write.id THEN EditUpdate(collection[i], write)
        ELSE collection[i] ]

\* The frame of the actions below: the Alerts and Dashboard screens and the card.
OtherScreensUnchanged ==
    /\ UNCHANGED <<overdueVisitors, loading, refreshing, pendingRender, view>>
    /\ UNCHANGED <<allVisitors, stats, dashLoading, dashRefreshing, dashPending, dashView>>
    /\ UNCHANGED <<cardVars, formVars, sessionVars, appVars>>

\* handleCheckIn with a valid form: the document is built and addDoc is called.
HandleCheckIn ==
    /\ coPc = "idle"
    /\ Cardinality(inFlight) < MaxInFlight
    /\ Len(db) + Cardinality({ w \in inFlight : w.op = "add" }) < MaxRecords
    /\ \E form \in {Bob} :
          inFlight' = inFlight \cup { [ op |-> "add", form |-> form, timeIn |-> now ] }
    /\ UNCHANGED <<now, db, listeners, dashListeners, coVars, checkingOut>>
    /\ OtherScreensUnchanged

\* await addDoc(...) settles: the document is in the collection, or the call threw and
\* nothing was written.
AddDocSettled ==
    /\ coPc = "idle"
    /\ \E w \in inFlight :
          /\ w.op = "add"
          /\ inFlight' = inFlight \ {w}
          /\ \/ /\ db' = Append(db, NewRecord(Len(db) + 1, w.timeIn, w.form))
                /\ listeners' = AllStale
                /\ coListeners' = CoAllStale
                /\ dashListeners' = DashAllStale
             \/ UNCHANGED <<db, listeners, coListeners, dashListeners>>
    /\ UNCHANGED <<now, visitors, filteredVisitors, searchQuery, coLoading, coRefreshing, coPc,
                   coEffectDue, coView, checkingOut>>
    /\ OtherScreensUnchanged

\* handleCheckOut(visitor.id), from the button of a card on screen; the button of the
\* visitor named by checkingOut is disabled.
HandleCheckOut ==
    /\ coPc = "idle"
    /\ Cardinality(inFlight) < MaxInFlight
    /\ \E i \in 1..Len(coView.list) :
          LET visitorId == coView.list[i].id
          IN  /\ checkingOut # Some(visitorId)
              /\ checkingOut' = Some(visitorId)
              /\ inFlight' = inFlight \cup
                    { [ op |-> "checkOut", id |-> visitorId, timeOut |-> now, by |-> CurrentUser ] }
    /\ coPc' = "render"
    /\ UNCHANGED <<now, db, listeners, dashListeners>>
    /\ UNCHANGED <<coListeners, visitors, filteredVisitors, searchQuery, coLoading, coRefreshing,
                   coEffectDue, coView>>
    /\ OtherScreensUnchanged

\* await updateDoc(...) of a check-out settles, then finally { setCheckingOut(null) }.
CheckOutSettled ==
    /\ coPc = "idle"
    /\ \E w \in inFlight :
          /\ w.op = "checkOut"
          /\ inFlight' = inFlight \ {w}
          /\ \/ /\ db' = AfterCheckOut(db, w)
                /\ listeners' = AllStale
                /\ coListeners' = CoAllStale
                /\ dashListeners' = DashAllStale
             \/ UNCHANGED <<db, listeners, coListeners, dashListeners>>
    /\ checkingOut' = None
    /\ coPc' = IF checkingOut = None THEN "idle" ELSE "render"
    /\ UNCHANGED <<now, visitors, filteredVisitors, searchQuery, coLoading, coRefreshing,
                   coEffectDue, coView>>
    /\ OtherScreensUnchanged

\* handleUpdateVisitor on the edit form of a visitor, with the required fields filled.
HandleUpdateVisitor ==
    /\ coPc = "idle"
    /\ Cardinality(inFlight) < MaxInFlight
    /\ \E i \in 1..Len(db), editFormData \in EditInputs :
          /\ editFormData.visitorName # <<>>
          /\ editFormData.phoneNumber # <<>>
          /\ editFormData.residence # <<>>
          /\ inFlight' = inFlight \cup
                { [ op |-> "edit", id |-> db[i].id, data |-> editFormData, at |-> now,
                    by |-> CurrentUser ] }
    /\ UNCHANGED <<now, db, listeners, dashListeners, coVars, checkingOut>>
    /\ OtherScreensUnchanged

\* await updateDoc(...) of an edit settles.
UpdateSettled ==
    /\ coPc = "idle"
    /\ \E w \in inFlight :
          /\ w.op = "edit"
          /\ inFlight' = inFlight \ {w}
          /\ \/ /\ db' = AfterEdit(db, w)
                /\ listeners' = AllStale
                /\ coListeners' = CoAllStale
                /\ dashListeners' = DashAllStale
             \/ UNCHANGED <<db, listeners, coListeners, dashListeners>>
    /\ UNCHANGED <<now, visitors, filteredVisitors, searchQuery, coLoading, coRefreshing, coPc,
                   coEffectDue, coView, checkingOut>>
    /\ OtherScreensUnchanged

\* The collection and the Check Out screen of one signed-in guard.
InitRecords ==
    /\ now = Now0
    /\ db = <<>>
    /\ AlertsUnmounted
    /\ CheckOutMounted
    /\ DashboardUnmounted
    /\ NoCardShown
    /\ NoWrites
    /\ EmptyForm
    /\ GuardSignedIn
    /\ AppIdle

\* A minute passes between two taps.
MinutePasses == Tick /\ now' = Now0 + MsPerMinute

NextRecords ==
    \/ MinutePasses
    \/ HandleCheckIn
    \/ AddDocSettled
    \/ HandleCheckOut
    \/ CheckOutSettled
    \/ HandleUpdateVisitor
    \/ UpdateSettled
    \/ CoOnSnapshot
    \/ CoRender
    \/ CoFilterEffect

SpecRecords == InitRecords /\ [][NextRecords]_vars

\* The CheckOut screen over a collection of checked-in visitors whose cards are tapped
\* one after the other while earlier check-outs are still on their way.
InitButtons ==
    /\ now = Now0
    /\ db = [ i \in 1..MaxVisitors |-> NewRecord(i, Now0 - MsPerHour, Jane) ]
    /\ AlertsUnmounted
    /\ CheckOutMounted
    /\ DashboardUnmounted
    /\ NoCardShown
    /\ NoWrites
    /\ EmptyForm
    /\ GuardSignedIn
    /\ AppIdle

NextButtons ==
    \/ CoOnSnapshot
    \/ CoRender
    \/ CoFilterEffect
    \/ HandleCheckOut
    \/ CheckOutSettled

SpecButtons == InitButtons /\ [][NextButtons]_vars

----------------------------------------------------------------------------
(* CheckIn screen: the form and handleCheckIn *)

\* The text fields of the form and what is typed into each.
TextFields ==
    { "visitorName", "phoneNumber", "idNumber", "refNumber", "residence",
      "institutionOccupation", "purposeOfVisit", "tagNumber" }

FieldInputs(field) ==
    CASE field = "visitorName" -> { <<>>, <<" ">>, <<"A", "n", "n">> }
      [] field = "phoneNumber" -> { <<>>, <<"0", "7", "3">> }
      [] field = "idNumber" -> { <<>>, <<"7", "8", "9">> }
      [] field = "refNumber" -> { <<>>, <<" ">>, <<"K", "A", "A", "1">> }
      [] field = "residence" -> { <<>>, <<"J", "u", "j", "a">> }
      [] field = "institutionOccupation" -> { <<>>, <<"C", "l", "e", "r", "k">> }
      [] field = "purposeOfVisit" -> { <<>>, <<"T", "a", "l", "k">> }
      [] field = "tagNumber" -> { <<>>, <<"T", "7">> }

\* The form is idle: no Alert is up.  The Check In button is disabled while loading.
FormIdle == ciAlert = "none"

\* handleInputChange(field, text); the plate input is rendered for vehicles only and the
\* tag input is not editable once "Tag Not Given" is checked.
HandleInputChangeIn(fields) ==
    /\ FormIdle
    /\ \E field \in fields :
          /\ field = "refNumber" => visitorType = "vehicle"
          /\ field = "tagNumber" => ~tagNotGiven
          /\ \E text \in FieldInputs(field) :
                /\ text # formData[field]
                /\ formData' = [ formData EXCEPT ![field] = text ]
    /\ UNCHANGED <<visitorType, gender, tagNotGiven, ciLoading, ciAlert>>
    /\ UNCHANGED <<alertVars, cardVars, coVars, dashVars, writeVars, sessionVars, appVars>>

HandleInputChange == HandleInputChangeIn(TextFields)

\* The two inputs below the visitor's details: the plate and the tag.
PlateAndTagFields == { "refNumber", "tagNumber" }

HandlePlateOrTagChange == HandleInputChangeIn(PlateAndTagFields)

\* handleTagNotGivenToggle: checking the box clears the tag number.
HandleTagNotGivenToggle ==
    /\ FormIdle
    /\ tagNotGiven' = ~tagNotGiven
    /\ formData' = IF ~tagNotGiven THEN [ formData EXCEPT !.tagNumber = <<>> ] ELSE formData
    /\ UNCHANGED <<visitorType, gender, ciLoading, ciAlert>>
    /\ UNCHANGED <<alertVars, cardVars, coVars, dashVars, writeVars, sessionVars, appVars>>

\* handleVisitorTypeChange(type): going back to 'foot' clears the plate.
HandleVisitorTypeChange ==
    /\ FormIdle
    /\ \E type \in {"foot", "vehicle"} :
          /\ type # visitorType
          /\ visitorType' = type
          /\ formData' = IF type = "foot" THEN [ formData EXCEPT !.refNumber = <<>> ]
                         ELSE formData
    /\ UNCHANGED <<gender, tagNotGiven, ciLoading, ciAlert>>
    /\ UNCHANGED <<alertVars, cardVars, coVars, dashVars, writeVars, sessionVars, appVars>>

\* handleGenderSelect(selectedGender)
HandleGenderSelect ==
    /\ FormIdle
    /\ gender = <<>>
    /\ gender' = <<"M", "a", "l", "e">>
    /\ UNCHANGED <<visitorType, tagNotGiven, formData, ciLoading, ciAlert>>
    /\ UNCHANGED <<alertVars, cardVars, coVars, dashVars, writeVars, sessionVars, appVars>>

\* A variant of the validation that compares the fields themselves with ''.
FormIsValid_NoTrim ==
    /\ formData.visitorName # <<>>
    /\ formData.phoneNumber # <<>>
    /\ formData.idNumber # <<>>
    /\ formData.residence # <<>>
    /\ formData.institutionOccupation # <<>>
    /\ formData.purposeOfVisit # <<>>
    /\ gender # <<>>
    /\ visitorType = "vehicle" => formData.refNumber # <<>>
    /\ ~tagNotGiven => formData.tagNumber # <<>>

\* The four checks at the head of handleCheckIn all pass.
FormIsValid ==
    /\ Trim(formData.visitorName) # <<>>
    /\ Trim(formData.phoneNumber) # <<>>
    /\ Trim(formData.idNumber) # <<>>
    /\ Trim(formData.residence) # <<>>
    /\ Trim(formData.institutionOccupation) # <<>>
    /\ Trim(formData.purposeOfVisit) # <<>>
    /\ gender # <<>>
    /\ visitorType = "vehicle" => Trim(formData.refNumber) # <<>>
    /\ ~tagNotGiven => Trim(formData.tagNumber) # <<>>

\* A variant of visitorData that lists refNumber with the other trimmed fields.
VisitorData_AlwaysRefNumber ==
    [ visitorName |-> Trim(formData.visitorName),
      phoneNumber |-> Trim(formData.phoneNumber),
      idNumber |-> Trim(formData.idNumber),
      residence |-> Trim(formData.residence),
      institutionOccupation |-> Trim(formData.institutionOccupation),
      purposeOfVisit |-> Trim(formData.purposeOfVisit),
      gender |-> Some(gender),
      visitorType |-> visitorType,
      tagNotGiven |-> Some(tagNotGiven),
      refNumber |-> Some(Trim(formData.refNumber)),
      tagNumber |-> IF ~tagNotGiven /\ Trim(formData.tagNumber) # <<>>
                    THEN Some(Trim(formData.tagNumber)) ELSE Some(NotApplicable) ]

\* visitorData, without timeIn, checkedInBy and isCheckedOut (see NewRecord).
VisitorData ==
    [ visitorName |-> Trim(formData.visitorName),
      phoneNumber |-> Trim(formData.phoneNumber),
      idNumber |-> Trim(formData.idNumber),
      residence |-> Trim(formData.residence),
      institutionOccupation |-> Trim(formData.institutionOccupation),
      purposeOfVisit |-> Trim(formData.purposeOfVisit),
      gender |-> Some(gender),
      visitorType |-> visitorType,
      tagNotGiven |-> Some(tagNotGiven),
      refNumber |-> IF visitorType = "vehicle" /\ Trim(formData.refNumber) # <<>>
                    THEN Some(Trim(formData.refNumber)) ELSE None,
      tagNumber |-> IF ~tagNotGiven /\ Trim(formData.tagNumber) # <<>>
                    THEN Some(Trim(formData.tagNumber)) ELSE Some(NotApplicable) ]

\* handleCheckIn, from the Check In button, up to its first await: a failed check or a
\* missing user puts up an Alert and leaves loading false; otherwise loading is set
\* and addDoc is called.
HandleCheckInPressed ==
    /\ FormIdle
    /\ ~ciLoading
    /\ IF FormIsValid /\ authUser # None
       THEN /\ Len(db) + Cardinality({ w \in inFlight : w.op = "add" }) < MaxRecords
            /\ ciLoading' = TRUE
            /\ inFlight' = inFlight \cup { [ op |-> "add", form |-> VisitorData, timeIn |-> now ] }
            /\ UNCHANGED ciAlert
       ELSE /\ ciAlert' = "error"
            /\ UNCHANGED <<ciLoading, inFlight>>
    /\ UNCHANGED <<visitorType, gender, tagNotGiven, formData, checkingOut>>
    /\ UNCHANGED <<alertVars, cardVars, coVars, dashVars, sessionVars, appVars>>

\* await addDoc(...) of handleCheckIn settles: the record is stored and the success
\* Alert goes up, or the catch branch puts up the error; finally loading is false.
CheckInSettled ==
    /\ ciLoading
    /\ \E w \in inFlight :
          /\ w.op = "add"
          /\ inFlight' = inFlight \ {w}
          /\ \/ /\ db' = Append(db, NewRecord(Len(db) + 1, w.timeIn, w.form))
                /\ listeners' = AllStale
                /\ coListeners' = CoAllStale
                /\ dashListeners' = DashAllStale
                /\ ciAlert' = "success"
             \/ /\ UNCHANGED <<db, listeners, coListeners, dashListeners>>
                /\ ciAlert' = "error"
    /\ ciLoading' = FALSE
    /\ UNCHANGED <<visitorType, gender, tagNotGiven, formData, checkingOut>>
    /\ UNCHANGED <<now, visitors, filteredVisitors, searchQuery, coLoading, coRefreshing, coPc,
                   coEffectDue, coView>>
    /\ UNCHANGED <<overdueVisitors, loading, refreshing, pendingRender, view>>
    /\ UNCHANGED <<allVisitors, stats, dashLoading, dashRefreshing, dashPending, dashView>>
    /\ UNCHANGED <<cardVars, sessionVars, appVars>>

\* OK on the Alert; after a success it resets the form.
AlertDismissed ==
    /\ ciAlert # "none"
    /\ ciAlert' = "none"
    /\ IF ciAlert = "success"
       THEN /\ formData' = EmptyFormData
            /\ gender' = <<>>
            /\ visitorType' = "foot"
            /\ tagNotGiven' = FALSE
       ELSE UNCHANGED <<formData, gender, visitorType, tagNotGiven>>
    /\ UNCHANGED ciLoading
    /\ UNCHANGED <<alertVars, cardVars, coVars, dashVars, writeVars, sessionVars, appVars>>

\* The CheckIn screen, with or without a signed-in user, and the edit form.
InitCheckIn ==
    /\ now = Now0
    /\ db = <<>>
    /\ AlertsUnmounted
    /\ CheckOutUnmounted
    /\ DashboardUnmounted
    /\ NoCardShown
    /\ NoWrites
    /\ EmptyForm
    /\ authUser \in { None, Some(CurrentUser) }
    /\ AppIdle

NextCheckIn ==
    \/ HandleInputChange
    \/ HandleTagNotGivenToggle
    \/ HandleVisitorTypeChange
    \/ HandleGenderSelect
    \/ HandleCheckInPressed
    \/ CheckInSettled
    \/ AlertDismissed

SpecCheckIn == InitCheckIn /\ [][NextCheckIn]_vars

\* The form with the visitor's details typed and the gender chosen; the plate, the tag
\* and the two switches are still as constructed.
DetailsTyped ==
    [ EmptyFormData EXCEPT !.visitorName = <<"A", "n", "n">>,
                           !.phoneNumber = <<"0", "7", "3">>,
                           !.idNumber = <<"7", "8", "9">>,
                           !.residence = <<"J", "u", "j", "a">>,
                           !.institutionOccupation = <<"C", "l", "e", "r", "k">>,
                           !.purposeOfVisit = <<"T", "a", "l", "k">> ]

\* What is stored: from the typed details on, the guard picks the visitor type, types
\* the plate and the tag, checks the visitor in, and stored records are edited.
InitStored ==
    /\ now = Now0
    /\ db = <<>>
    /\ AlertsUnmounted
    /\ CheckOutUnmounted
    /\ DashboardUnmounted
    /\ NoCardShown
    /\ NoWrites
    /\ visitorType = "foot"
    /\ gender = <<"M", "a", "l", "e">>
    /\ tagNotGiven = FALSE
    /\ formData = DetailsTyped
    /\ ciLoading = FALSE
    /\ ciAlert = "none"
    /\ GuardSignedIn
    /\ AppIdle

NextStored ==
    \/ HandlePlateOrTagChange
    \/ HandleTagNotGivenToggle
    \/ HandleVisitorTypeChange
    \/ HandleCheckInPressed
    \/ CheckInSettled
    \/ AlertDismissed
    \/ HandleUpdateVisitor
    \/ UpdateSettled

SpecStored == InitStored /\ [][NextStored]_vars

----------------------------------------------------------------------------
(* Timestamp normalisation of the three snapshot callbacks *)

\* A Date is Some(ms), or None for an Invalid Date (getTime() is NaN).
InvalidDate == None

\* The points in time a stored timeIn denotes.
BackendTimes == { Now0 - 13 * MsPerHour, Now0 - MsPerHour }

\* data.timeIn as the backend can hand it over: shape is what the value is, ms the
\* point in time it denotes; a string that Date cannot parse denotes none.
BackendValues ==
    [ shape : { "Date", "Timestamp", "toDate", "string", "number" },
      ms : { Some(t) : t \in BackendTimes } ]
        \cup { [ shape |-> "string", ms |-> None ], [ shape |-> "null", ms |-> None ] }

\* !value
Falsy(value) == value.shape = "null"

\* new Date(value) for a Date, a string or a number.
NewDate(value) == value.ms

\* parseFirebaseDate(dateValue) of the Alerts screen, called at time t.
ParseFirebaseDate(value, t) ==
    IF Falsy(value) THEN Some(t)
    ELSE IF value.shape = "Date" THEN value.ms
    ELSE IF value.shape = "Timestamp" THEN value.ms
    ELSE IF value.shape = "toDate" THEN value.ms
    ELSE IF value.shape = "string" /\ NewDate(value) # InvalidDate THEN NewDate(value)
    ELSE Some(t)

\* toJsDate(value) of the Dashboard, called at time t.
ToJsDate(value, t) ==
    IF Falsy(value) THEN Some(t)
    ELSE IF value.shape = "Timestamp" THEN value.ms
    ELSE IF value.shape = "toDate" THEN value.ms
    ELSE NewDate(value)

\* The if-chain on data.timeIn in the snapshot callback of the CheckOut screen.
CheckOutTimeIn(value, t) ==
    IF value.shape = "Timestamp" THEN value.ms
    ELSE IF ~Falsy(value) /\ value.shape = "toDate" THEN value.ms
    ELSE IF ~Falsy(value) THEN NewDate(value)
    ELSE Some(t)

NormalizeOn(screen, value, t) ==
    CASE screen = "Alerts" -> ParseFirebaseDate(value, t)
      [] screen = "Dashboard" -> ToJsDate(value, t)
      [] screen = "CheckOut" -> CheckOutTimeIn(value, t)

\* The snapshot callback of a screen reads data.timeIn of the document.
SnapshotRead ==
    /\ rawTimeIn # None
    /\ \E screen \in Screens :
          /\ normalized[screen] = None
          /\ normalized' = [ normalized EXCEPT
                               ![screen] = Some([ date |-> NormalizeOn(screen, rawTimeIn[1], now),
                                                  at |-> now ]) ]
    /\ UNCHANGED <<rawTimeIn, alertVars, cardVars, coVars, dashVars, writeVars, formVars,
                   sessionVars, presenceVars, navVars, loginVars>>

\* Time passes between the callbacks of the screens.
ClockTick ==
    /\ \E t \in Instants : t > now /\ now' = t
    /\ UNCHANGED <<db, listeners, overdueVisitors, loading, refreshing, pendingRender, view>>
    /\ UNCHANGED <<cardVars, coVars, dashVars, writeVars, formVars, sessionVars, appVars>>

\* One document of any shape of timeIn, read by the three screens.
InitTimestamps ==
    /\ now = Now0
    /\ db = <<>>
    /\ AlertsUnmounted
    /\ CheckOutUnmounted
    /\ DashboardUnmounted
    /\ NoCardShown
    /\ NoWrites
    /\ EmptyForm
    /\ GuardSignedIn
    /\ rawTimeIn \in { Some(value) : value \in BackendValues }
    /\ normalized = [ screen \in Screens |-> None ]
    /\ NoPresence
    /\ NavigatorUnmounted
    /\ NoLogins

NextTimestamps ==
    \/ SnapshotRead
    \/ ClockTick

SpecTimestamps == InitTimestamps /\ [][NextTimestamps]_vars

----------------------------------------------------------------------------
(* Presence service and handleSignOut of the Dashboard *)

\* Nothing but presence and the session changes.
ScreensUnchanged ==
    UNCHANGED <<alertVars, cardVars, coVars, dashVars, writeVars, formVars, timeVars>>

\* auth.currentUser has changed: the navigator's onAuthStateChanged listener, when
\* registered, is due a call with the new user.
AuthStateChangedTo(user) ==
    authEvents' = IF navShown = "unmounted" THEN authEvents ELSE Append(authEvents, user)

\* setupUserPresence(): registers one more listener on .info/connected; its
\* unsubscribe function is dropped.
SetupUserPresence ==
    /\ authUser # None
    /\ Len(presenceListeners) < MaxPresenceListeners
    /\ presenceListeners' = Append(presenceListeners, None)
    /\ UNCHANGED <<status, connected, rtdbWrites, onDisconnectArmed, signOutPc, authUser>>
    /\ UNCHANGED <<navVars, loginVars>>
    /\ ScreensUnchanged

\* The callback of a listener on .info/connected runs with the current value: when
\* connected it sets status/{uid} to online and arms the onDisconnect write.
ConnectionCallback ==
    /\ \E i \in 1..Len(presenceListeners) :
          /\ presenceListeners[i] # Some(connected)
          /\ presenceListeners' = [ presenceListeners EXCEPT ![i] = Some(connected) ]
          /\ IF connected
             THEN /\ Len(rtdbWrites) < MaxRtdbWrites
                  /\ rtdbWrites' = Append(rtdbWrites, [ state |-> "online", by |-> "listener" ])
                  /\ onDisconnectArmed' = TRUE
             ELSE UNCHANGED <<rtdbWrites, onDisconnectArmed>>
    /\ UNCHANGED <<status, connected, signOutPc, authUser>>
    /\ UNCHANGED <<navVars, loginVars>>
    /\ ScreensUnchanged

\* The connection to the realtime database drops or comes back; on a drop the server
\* runs the armed onDisconnect write and loses the writes not yet received.
ConnectionChanged ==
    /\ connected' = ~connected
    /\ IF connected /\ onDisconnectArmed
       THEN status' = "offline" /\ onDisconnectArmed' = FALSE
       ELSE UNCHANGED <<status, onDisconnectArmed>>
    /\ UNCHANGED <<presenceListeners, rtdbWrites, signOutPc, authUser>>
    /\ UNCHANGED <<navVars, loginVars>>
    /\ ScreensUnchanged

\* The oldest set() on status/{uid} settles: the server applies it, or its rules reject it.
RtdbWriteSettled ==
    /\ connected
    /\ rtdbWrites # <<>>
    /\ rtdbWrites' = Tail(rtdbWrites)
    /\ \/ status' = Head(rtdbWrites).state
       \/ UNCHANGED status
    /\ UNCHANGED <<connected, presenceListeners, onDisconnectArmed, signOutPc, authUser>>
    /\ UNCHANGED <<navVars, loginVars>>
    /\ ScreensUnchanged

\* cleanupPresence(): sends set(userStatusRef, { state: 'offline', ... }) and returns
\* nothing; the promise of set() is dropped.
CleanupPresence ==
    /\ Len(rtdbWrites) < MaxRtdbWrites
    /\ rtdbWrites' = Append(rtdbWrites, [ state |-> "offline", by |-> "cleanup" ])
    /\ UNCHANGED status

\* handleSignOut up to its first real wait: await cleanupPresence() resumes at once
\* (it awaits undefined), then signOut(auth) is called.
HandleSignOut ==
    /\ authUser # None
    /\ navShown \in { "unmounted", "Main" }
    /\ signOutPc = "idle"
    /\ CleanupPresence
    /\ signOutPc' = "signOut"
    /\ UNCHANGED <<connected, presenceListeners, onDisconnectArmed, authUser>>
    /\ UNCHANGED <<navVars, loginVars>>
    /\ ScreensUnchanged

\* await signOut(auth) settles: the user is signed out, or the catch branch alerts.
SignOutSettled ==
    /\ signOutPc = "signOut"
    /\ signOutPc' = "idle"
    /\ \/ authUser' = None /\ AuthStateChangedTo(None)
       \/ UNCHANGED <<authUser, authEvents>>
    /\ UNCHANGED <<status, connected, presenceListeners, rtdbWrites, onDisconnectArmed>>
    /\ UNCHANGED <<navUser, navLoading, navPending, navShown, lastDelivered, loginVars>>
    /\ ScreensUnchanged

InitPresence ==
    /\ now = Now0
    /\ db = <<>>
    /\ AlertsUnmounted
    /\ CheckOutUnmounted
    /\ DashboardUnmounted
    /\ NoCardShown
    /\ NoWrites
    /\ EmptyForm
    /\ GuardSignedIn
    /\ AppIdle

NextPresence ==
    \/ SetupUserPresence
    \/ ConnectionCallback
    \/ ConnectionChanged
    \/ RtdbWriteSettled
    \/ HandleSignOut
    \/ SignOutSettled

SpecPresence == InitPresence /\ [][NextPresence]_vars

----------------------------------------------------------------------------
(* Login screen: handleLogin and createUserInFirestore *)

\* Nothing outside the login, the session and the navigator changes.
LoginFrame ==
    /\ UNCHANGED <<alertVars, cardVars, coVars, dashVars, writeVars, formVars, timeVars>>
    /\ UNCHANGED presenceVars

\* What the Login button is pressed with: both fields filled, or one left empty.
Credentials == { "filled", "incomplete" }

\* handleLogin up to its first await.  On this device the Login screen must be shown
\* and the button is disabled while loading.
HandleLogin(d) ==
    /\ loginPc[d] = "idle"
    /\ d = ThisDevice => authUser = None /\ navShown \in { "unmounted", "Login" }
    /\ \E typed \in Credentials :
          IF typed = "incomplete"
          THEN /\ loginFailed' = [ loginFailed EXCEPT ![d] = TRUE ]
               /\ UNCHANGED loginPc
          ELSE /\ loginFailed' = [ loginFailed EXCEPT ![d] = FALSE ]
               /\ loginPc' = [ loginPc EXCEPT ![d] = "signIn" ]
    /\ UNCHANGED <<usersDoc, navVars, sessionVars>>
    /\ LoginFrame

\* await signInWithEmailAndPassword(...) settles: the user is signed in and
\* createUserInFirestore starts with getDoc, or the catch branch alerts.
SignInSettled(d) ==
    /\ loginPc[d] = "signIn"
    /\ \/ /\ loginPc' = [ loginPc EXCEPT ![d] = "getDoc" ]
          /\ IF d = ThisDevice
             THEN authUser' = Some(CurrentUser) /\ AuthStateChangedTo(Some(CurrentUser))
             ELSE UNCHANGED <<authUser, authEvents>>
          /\ UNCHANGED loginFailed
       \/ /\ loginPc' = [ loginPc EXCEPT ![d] = "idle" ]
          /\ loginFailed' = [ loginFailed EXCEPT ![d] = TRUE ]
          /\ UNCHANGED <<authUser, authEvents>>
    /\ UNCHANGED <<usersDoc, navUser, navLoading, navPending, navShown, lastDelivered>>
    /\ LoginFrame

\* await getDoc(userRef) settles: the branch on userSnap.exists() is taken and the
\* setDoc of that branch is sent; a failed read is logged and the login is over.
UserDocRead(d) ==
    /\ loginPc[d] = "getDoc"
    /\ \/ loginPc' = [ loginPc EXCEPT ![d] = IF usersDoc = None THEN "create" ELSE "touch" ]
       \/ loginPc' = [ loginPc EXCEPT ![d] = "idle" ]
    /\ UNCHANGED <<usersDoc, loginFailed, navVars, sessionVars>>
    /\ LoginFrame

\* setDoc(userRef, { email, displayName, createdAt, lastLoginAt, role: 'user' }): the
\* document is replaced, whatever it holds by now.
UserDocAfterCreate(current) ==
    Some([ email |-> CurrentUser, displayName |-> <<>>, createdAt |-> now,
           lastLoginAt |-> now, role |-> "user" ])

\* setDoc(userRef, { lastLoginAt }, { merge: true })
UserDocAfterTouch(current) ==
    IF current = None THEN Some([ lastLoginAt |-> now ])
    ELSE Some([ current[1] EXCEPT !.lastLoginAt = now ])

\* await setDoc(...) of createUserInFirestore settles; a failure is caught and logged.
\* handleLogin then ends: finally setLoading(false).
UserDocWritten(d) ==
    /\ loginPc[d] \in { "create", "touch" }
    /\ \/ usersDoc' = IF loginPc[d] = "create" THEN UserDocAfterCreate(usersDoc)
                                               ELSE UserDocAfterTouch(usersDoc)
       \/ UNCHANGED usersDoc
    /\ loginPc' = [ loginPc EXCEPT ![d] = "idle" ]
    /\ UNCHANGED <<loginFailed, navVars, sessionVars>>
    /\ LoginFrame

\* Another writer, an administrator, sets up users/{uid} with a role of its own.
AdminProvisions ==
    /\ usersDoc = None
    /\ usersDoc' = Some([ email |-> CurrentUser, displayName |-> <<"G">>, createdAt |-> now,
                          lastLoginAt |-> now, role |-> "admin" ])
    /\ UNCHANGED <<loginPc, loginFailed, navVars, sessionVars>>
    /\ LoginFrame

\* Logins of the same user on several devices, next to another writer.
InitLogin ==
    /\ now = Now0
    /\ db = <<>>
    /\ AlertsUnmounted
    /\ CheckOutUnmounted
    /\ DashboardUnmounted
    /\ NoCardShown
    /\ NoWrites
    /\ EmptyForm
    /\ authUser = None
    /\ AppIdle

NextLogin ==
    \/ \E d \in Devices : HandleLogin(d)
    \/ \E d \in Devices : SignInSettled(d)
    \/ \E d \in Devices : UserDocRead(d)
    \/ \E d \in Devices : UserDocWritten(d)
    \/ AdminProvisions
    \/ ClockTick

SpecLogin == InitLogin /\ [][NextLogin]_vars

----------------------------------------------------------------------------
(* AppNavigator *)

\* What AppNavigator returns: null while loading, else the one screen of the stack.
NavigatorOutput ==
    IF navLoading THEN "nothing"
    ELSE IF navUser # None THEN "Main" ELSE "Login"

\* A variant of the callback that keeps the user it has when called with null.
AuthStateDelivered_IgnoresNull ==
    /\ authEvents # <<>>
    /\ navUser' = IF Head(authEvents) = None THEN navUser ELSE Head(authEvents)
    /\ navLoading' = FALSE
    /\ navPending' = TRUE
    /\ lastDelivered' = Some(Head(authEvents))
    /\ authEvents' = Tail(authEvents)
    /\ UNCHANGED <<navShown, loginVars, sessionVars>>
    /\ LoginFrame

\* The onAuthStateChanged callback: setUser(u); setLoading(false).
AuthStateDelivered ==
    /\ authEvents # <<>>
    /\ navUser' = Head(authEvents)
    /\ navLoading' = FALSE
    /\ navPending' = TRUE
    /\ lastDelivered' = Some(Head(authEvents))
    /\ authEvents' = Tail(authEvents)
    /\ UNCHANGED <<navShown, loginVars, sessionVars>>
    /\ LoginFrame

\* React renders AppNavigator after a state change.
NavRender ==
    /\ navPending
    /\ navShown' = NavigatorOutput
    /\ navPending' = FALSE
    /\ UNCHANGED <<navUser, navLoading, authEvents, lastDelivered, loginVars, sessionVars>>
    /\ LoginFrame

\* The app has started: the first render returned null, the effect has registered the
\* listener, and its first call, with the restored session or null, is due.
InitNavigator ==
    /\ now = Now0
    /\ db = <<>>
    /\ AlertsUnmounted
    /\ CheckOutUnmounted
    /\ DashboardUnmounted
    /\ NoCardShown
    /\ NoWrites
    /\ EmptyForm
    /\ authUser \in { None, Some(CurrentUser) }
    /\ NothingNormalized
    /\ NoPresence
    /\ NoLogins
    /\ navUser = None
    /\ navLoading = TRUE
    /\ navPending = FALSE
    /\ navShown = "nothing"
    /\ authEvents = <<authUser>>
    /\ lastDelivered = None

NextNavigator ==
    \/ AuthStateDelivered
    \/ NavRender
    \/ HandleLogin(ThisDevice)
    \/ SignInSettled(ThisDevice)
    \/ UserDocRead(ThisDevice)
    \/ UserDocWritten(ThisDevice)
    \/ HandleSignOut
    \/ SignOutSettled
    \/ RtdbWriteSettled

SpecNavigator == InitNavigator /\ [][NextNavigator]_vars

----------------------------------------------------------------------------
(* CheckOut screen: the tag line of a card and the 'With Tags' count *)

\* visitor.tagNumber is truthy and not the 'N/A' placeholder.
HasTagNumber(visitor) ==
    /\ visitor.tagNumber # None
    /\ visitor.tagNumber # Some(<<>>)
    /\ visitor.tagNumber # Some(NotApplicable)

\* getTagDisplay(visitor.tagNumber, visitor.tagNotGiven): the text of the tag line.
GetTagDisplay(visitor) ==
    IF visitor.tagNotGiven = Some(TRUE) THEN <<"Not Given">>
    ELSE IF HasTagNumber(visitor) THEN <<"Tag #", visitor.tagNumber[1]>>
    ELSE <<"N/A">>

\* visitors.filter(v => v.tagNumber && v.tagNumber !== 'N/A' && !v.tagNotGiven).length
WithTagsCount(list) ==
    Cardinality({ i \in 1..Len(list) :
                    HasTagNumber(list[i]) /\ list[i].tagNotGiven # Some(TRUE) })

----------------------------------------------------------------------------
(* Properties *)

Range(s) == { s[i] : i \in 1..Len(s) }
Ids(s) == [ i \in 1..Len(s) |-> s[i].id ]
Count(s, x) == Cardinality({ i \in 1..Len(s) : s[i] = x })
IsPermutation(s, t) ==
    /\ Len(s) = Len(t)
    /\ \A x \in Range(s) \cup Range(t) : Count(s, x) = Count(t, x)
Elapsed(doc) == now - doc.timeIn
HoursOf(s) == [ i \in 1..Len(s) |-> s[i].hoursOverdue ]

\* A step in which some listener's callback ran.
SnapshotDelivered ==
    /\ Len(listeners') = Len(listeners)
    /\ \E i \in 1..Len(listeners) : ~listeners[i] /\ listeners'[i]

\* A step in which the component rendered.
Rendered == pendingRender /\ ~pendingRender'

\* The screen's state was computed from the collection as it is now.
DataCurrent == \E i \in 1..Len(listeners) : listeners[i]

\* C1: the card's alert level is 'critical' iff hours >= 24, 'high' iff 18 <= hours < 24,
\* 'medium' iff 12 <= hours < 18 and 'low' iff hours < 12, for every whole number of
\* hours; exactly one of the four levels is shown.
C1_AlertLevelBuckets ==
    cardOut # NoCard =>
        LET h == Elapsed(cardVisitor) \div MsPerHour
            level == cardOut.alertLevel
        IN  /\ h >= 0
            /\ level \in {"critical", "high", "medium", "low"}
            /\ (level = "critical") <=> (h >= 24)
            /\ (level = "high") <=> (18 <= h /\ h < 24)
            /\ (level = "medium") <=> (12 <= h /\ h < 18)
            /\ (level = "low") <=> (h < 12)

C1_Witness ==
    /\ cardOut # NoCard
    /\ Elapsed(cardVisitor) = 18 * MsPerHour
    /\ cardOut.alertLevel = "high"

\* C2: when a snapshot is processed, a visitor checked in exactly 12h0m before 'now' is
\* left out of the overdue list and one checked in 12h1m before 'now' is put in it.
C2_AlertSetBoundary ==
    [][ SnapshotDelivered =>
          \A k \in { j \in 1..Len(db) : IsActive(db[j]) } :
              /\ Elapsed(db[k]) = 12 * MsPerHour => db[k] \notin Range(overdueVisitors')
              /\ Elapsed(db[k]) = 12 * MsPerHour + MsPerMinute => db[k] \in Range(overdueVisitors')
      ]_vars

C2_Witness ==
    /\ pendingRender
    /\ \A i \in 1..Len(listeners) : listeners[i]
    /\ \E k \in 1..Len(db) :
          Elapsed(db[k]) = 12 * MsPerHour /\ db[k] \notin Range(overdueVisitors)
    /\ \E k \in 1..Len(db) :
          Elapsed(db[k]) = 12 * MsPerHour + MsPerMinute /\ db[k] \in Range(overdueVisitors)

\* C3 as stated: a visitor is in the overdue list iff the floored hour count that the
\* card reports, getHoursOverdue(timeIn), is greater than 12.
C3_MembershipByFlooredHours ==
    [][ SnapshotDelivered =>
          \A k \in { j \in 1..Len(db) : IsActive(db[j]) } :
              (db[k] \in Range(overdueVisitors')) <=> (getHoursOverdue(db[k].timeIn) > 12)
      ]_vars

\* C3 amended: a visitor is in the overdue list iff the elapsed time itself, before any
\* flooring, is more than 12 hours: the floored hour count is at least 12 and the
\* elapsed time is not exactly 12 hours.
C3_MembershipByElapsedTime ==
    [][ SnapshotDelivered =>
          \A k \in { j \in 1..Len(db) : IsActive(db[j]) } :
              (db[k] \in Range(overdueVisitors')) <=>
                  (getHoursOverdue(db[k].timeIn) >= 12 /\ Elapsed(db[k]) # 12 * MsPerHour)
      ]_vars

C3_Witness ==
    /\ pendingRender
    /\ \A i \in 1..Len(listeners) : listeners[i]
    /\ \E k \in 1..Len(db) :
          /\ getHoursOverdue(db[k].timeIn) = 12
          /\ db[k] \in Range(overdueVisitors)
    /\ \E k \in 1..Len(db) : db[k] \notin Range(overdueVisitors)

\* C4: at every render made while the screen holds the collection's current data, the
\* overdue list and its total are those of the visitors whose elapsed time exceeds 12
\* hours at that render, whether or not a snapshot arrived since they crossed it.
C4_MembershipReevaluatedAtRender ==
    [][ (Rendered /\ ~loading /\ DataCurrent) =>
          /\ Range(Ids(view'.cards)) = { db[k].id : k \in { j \in 1..Len(db) : IsActive(db[j]) /\ Elapsed(db[j]) > 12 * MsPerHour } }
          /\ view'.total = Cardinality({ j \in 1..Len(db) : IsActive(db[j]) /\ Elapsed(db[j]) > 12 * MsPerHour })
      ]_vars

\* C5: on every rendered screen each listed visitor is critical, high or medium, never
\* low, and total = critical + high + medium.
C5_NoLowInOverdueSet ==
    view.kind # "loading" =>
        /\ \A i \in 1..Len(view.cards) : view.cards[i].alertLevel \in {"critical", "high", "medium"}
        /\ view.total = view.critical + view.high + view.medium

C5_Witness ==
    /\ view.kind = "list"
    /\ now > Now0
    /\ view.critical >= 1
    /\ view.medium >= 1
    /\ \E i \in 1..Len(view.cards) : view.cards[i].hoursOverdue = 12

\* C6: the summary shows total = number of listed visitors, critical = number with
\* hours >= 24, high = number with 18 <= hours < 24, medium = number with
\* 12 <= hours < 18; active visitors with hours [13, 19, 25, 11, 24] give 4, 2, 1, 1.
C6_AggregateCounts ==
    /\ view.kind # "loading" =>
          LET hours == HoursOf(view.cards)
              N(S) == Cardinality({ i \in 1..Len(hours) : hours[i] \in S })
          IN  /\ view.total = Len(view.cards)
              /\ view.critical = view.total - N(0..23)
              /\ view.high = N(18..23)
              /\ view.medium = N(12..17)
    /\ (db = DbOfHours(ExampleCounts) /\ now = Now0 /\ DataCurrent /\ ~pendingRender) =>
          /\ view.total = 4
          /\ view.critical = 2
          /\ view.high = 1
          /\ view.medium = 1

C6_Witness ==
    /\ db = DbOfHours(ExampleCounts) /\ now = Now0 /\ DataCurrent /\ ~pendingRender
    /\ view.total = 4 /\ view.critical = 2 /\ view.high = 1 /\ view.medium = 1

\* C7: the displayed list is in descending order of hoursOverdue and is a permutation of
\* the overdue set; hours [13, 25, 19] are displayed as [25, 19, 13].
C7_DisplayOrder ==
    [][ (Rendered /\ ~loading /\ Len(overdueVisitors) > 0) =>
          LET shown == HoursOf(view'.cards)
          IN  /\ \A i \in 1..(Len(shown) - 1) : shown[i] >= shown[i + 1]
              /\ IsPermutation(Ids(view'.cards), Ids(overdueVisitors))
              /\ [ i \in 1..Len(overdueVisitors) |-> getHoursOverdue(overdueVisitors[i].timeIn) ]
                     = ExampleOrder => shown = <<25, 19, 13>>
      ]_vars

C7_Witness ==
    /\ db = DbOfHours(ExampleOrder)
    /\ now = Now0
    /\ view.kind = "list"
    /\ HoursOf(view.cards) = <<25, 19, 13>>

\* A step in which the Dashboard rendered, and one in which the Check Out screen's
\* filter effect ran.
DashRendered == dashPending /\ ~dashPending'
CoFilterRan == coPc = "effect" /\ coPc' # "effect"

\* C8: computing a derived view (the Alerts list and counts, the Dashboard's recent
\* visitors, the Check Out search filter) leaves the visitor list held in the screen's
\* state with the same elements in the same order.
C8_DerivedViewsLeaveStateAlone ==
    [][ /\ Rendered => overdueVisitors' = overdueVisitors
        /\ DashRendered => allVisitors' = allVisitors
        /\ CoFilterRan => visitors' = visitors
      ]_vars

\* C9: the card's duration text is "{h}h" for h < 24 and, for h >= 24 with d = h div 24
\* and r = h mod 24, "{d}d" when r = 0 and "{d}d {r}h" otherwise; 23 gives "23h",
\* 24 gives "1d", 30 gives "1d 6h".
C9_FormatDuration ==
    cardOut # NoCard =>
        LET h == Elapsed(cardVisitor) \div MsPerHour
            d == h \div 24
            r == h % 24
            text == cardOut.durationText
        IN  /\ h < 24 => text = NumberToString(h) \o <<"h">>
            /\ (h >= 24 /\ r = 0) => text = NumberToString(d) \o <<"d">>
            /\ (h >= 24 /\ r # 0) => text = NumberToString(d) \o <<"d", " ">> \o NumberToString(r) \o <<"h">>
            /\ h = 23 => text = <<"2", "3", "h">>
            /\ h = 24 => text = <<"1", "d">>
            /\ h = 30 => text = <<"1", "d", " ", "6", "h">>

C9_Witness ==
    /\ cardOut # NoCard
    /\ Elapsed(cardVisitor) \div MsPerHour = 30
    /\ cardOut.durationText = <<"1", "d", " ", "6", "h">>

\* C10: once the filter effect has run for an empty or whitespace-only query, the
\* filtered list, and the list on screen, is the full visitor list: same elements, same
\* order.
C10_BlankQueryIsIdentity ==
    (coPc = "idle" /\ ~coLoading /\ \A i \in 1..Len(searchQuery) : searchQuery[i] \in WhiteSpace) =>
        /\ filteredVisitors = visitors
        /\ coView.list = visitors

C10_Witness ==
    /\ coPc = "idle"
    /\ searchQuery = <<" ", "\t">>
    /\ Len(visitors) = 2
    /\ visitors[1].visitorName # visitors[2].visitorName
    /\ filteredVisitors = visitors
    /\ coView.list = visitors

\* s is t with some elements left out: the elements of s are elements of t, in the
\* order they have in t, each position of t used at most once.
IsSubsequenceOf(s, t) ==
    \E f \in [1..Len(s) -> 1..Len(t)] :
        /\ \A i, j \in 1..Len(s) : i < j => f[i] < f[j]
        /\ \A i \in 1..Len(s) : s[i] = t[f[i]]

\* C11: whatever the query and the visitor list, what the filter effect puts in the
\* filtered list is a subsequence of the visitor list: only visitors of the list, none
\* more often than in the list, in the order of the list.
C11_FilterGivesSubsequence ==
    [][ CoFilterRan => IsSubsequenceOf(filteredVisitors', visitors') ]_vars

C11_Witness ==
    /\ ~coEffectDue
    /\ searchQuery = <<"k">>
    /\ Len(visitors) = 3
    /\ visitors[1].visitorName = Ann.visitorName
    /\ visitors[2].visitorName = Jane.visitorName
    /\ visitors[3].visitorName = Bob.visitorName
    /\ filteredVisitors = <<visitors[1], visitors[3]>>

\* The field holds the query, letter case aside.
ContainsIgnoringCase(field, query) == Includes(ToLowerCase(field), ToLowerCase(query))

\* One of the five text fields of the record holds the query, letter case aside.
TextFieldHolds(v, query) ==
    \/ ContainsIgnoringCase(v.visitorName, query)
    \/ ContainsIgnoringCase(v.residence, query)
    \/ ContainsIgnoringCase(v.institutionOccupation, query)
    \/ ContainsIgnoringCase(v.purposeOfVisit, query)
    \/ (v.gender # None /\ ContainsIgnoringCase(v.gender[1], query))

NonBlank(query) == \E i \in 1..Len(query) : query[i] \notin WhiteSpace

\* C12: once the filter effect has run for a non-blank query, every visitor of the list
\* whose name, residence, occupation, purpose or gender holds the query (letter case
\* aside) is in the filtered list, whatever its other fields; and the query "jane" on
\* the list [Jane Doe, Bob] leaves the Jane record alone.
C12_AnyTextFieldMatchIncludes ==
    (~coEffectDue /\ NonBlank(searchQuery)) =>
        /\ \A i \in 1..Len(visitors) :
              TextFieldHolds(visitors[i], searchQuery) => visitors[i] \in Range(filteredVisitors)
        /\ ( /\ searchQuery = <<"j", "a", "n", "e">>
             /\ Len(visitors) = 2
             /\ visitors[1].visitorName = Jane.visitorName
             /\ visitors[2].visitorName = Bob.visitorName )
           => filteredVisitors = <<visitors[1]>>

C12_Witness ==
    /\ ~coEffectDue
    /\ searchQuery = <<"U", "M", "M", "A">>
    /\ Len(visitors) = 2
    /\ visitors[1].visitorName = Jane.visitorName
    /\ visitors[2].visitorName = Bob.visitorName
    /\ filteredVisitors = <<visitors[1]>>

\* The tag lines of the predicate: the tag number, letter case aside, and the two
\* phrases that stand for the tag status.
TagLineHolds(v, query) ==
    \/ (v.tagNumber # None /\ ContainsIgnoringCase(v.tagNumber[1], query))
    \/ (v.tagNotGiven = Some(TRUE) /\ Includes(NoTag, ToLowerCase(query)))
    \/ /\ v.tagNotGiven # Some(TRUE)
       /\ v.tagNumber \notin { None, Some(<<>>), Some(NotApplicable) }
       /\ Includes(HasTag, ToLowerCase(query))

\* The record is in the result for a reason other than its phone number, id number or
\* vehicle plate.
MatchedElsewhere(v, query) == TextFieldHolds(v, query) \/ TagLineHolds(v, query)

\* C13 as claimed: a visitor that is in the filtered list through its phone number, id
\* number or vehicle plate has the query, exactly as typed, inside the stored value of
\* one of the three.
C13_ExactFieldsMatchRawQuery ==
    (~coEffectDue /\ NonBlank(searchQuery)) =>
        \A i \in 1..Len(filteredVisitors) :
            LET v == filteredVisitors[i]
            IN  ~MatchedElsewhere(v, searchQuery) =>
                    \/ Includes(v.phoneNumber, searchQuery)
                    \/ Includes(v.idNumber, searchQuery)
                    \/ (v.refNumber # None /\ Includes(v.refNumber[1], searchQuery))

\* C13 as amended: the phone number and the id number are searched for the query as
\* typed; the vehicle plate is searched letter case aside.  A visitor nothing else
\* matches is in the filtered list exactly when one of these three searches succeeds.
C13_PlateMatchesIgnoringCase ==
    (~coEffectDue /\ NonBlank(searchQuery)) =>
        \A i \in 1..Len(visitors) :
            LET v == visitors[i]
            IN  ~MatchedElsewhere(v, searchQuery) =>
                    ( v \in Range(filteredVisitors) <=>
                        \/ Includes(v.phoneNumber, searchQuery)
                        \/ Includes(v.idNumber, searchQuery)
                        \/ (v.refNumber # None /\ ContainsIgnoringCase(v.refNumber[1], searchQuery)) )

C13_Witness ==
    /\ ~coEffectDue
    /\ searchQuery = <<"k", "a", "a">>
    /\ Len(visitors) = 2
    /\ visitors[1].refNumber = None
    /\ visitors[2].refNumber = Some(<<"K", "A", "A", "1">>)
    /\ filteredVisitors = <<visitors[2]>>

\* The record matches the query by something other than its tag number.
MatchedWithoutTagNumber(v, query) ==
    \/ TextFieldHolds(v, query)
    \/ Includes(v.phoneNumber, query)
    \/ Includes(v.idNumber, query)
    \/ (v.refNumber # None /\ ContainsIgnoringCase(v.refNumber[1], query))
    \/ (v.tagNotGiven = Some(TRUE) /\ Includes(NoTag, ToLowerCase(query)))
    \/ /\ v.tagNotGiven # Some(TRUE)
       /\ v.tagNumber \notin { None, Some(<<>>), Some(NotApplicable) }
       /\ Includes(HasTag, ToLowerCase(query))

\* C14: a visitor whose tag number is "N/A" is in the filtered list only when something
\* other than the tag number matches the query: "N/A" itself is never searched.
C14_NotApplicableTagIsNotSearched ==
    (~coEffectDue /\ NonBlank(searchQuery)) =>
        \A i \in 1..Len(filteredVisitors) :
            filteredVisitors[i].tagNumber = Some(NotApplicable) =>
                MatchedWithoutTagNumber(filteredVisitors[i], searchQuery)

\* The visitor carries a tag: tagNotGiven is not set and the tag number is a value
\* other than "N/A".
HasRealTag(v) ==
    /\ v.tagNotGiven # Some(TRUE)
    /\ v.tagNumber \notin { None, Some(<<>>), Some(NotApplicable) }

CoRendered == coPc = "render" /\ coPc' # "render"

\* C16: every render of the Check Out screen that shows a list shows the visitors the
\* screen holds filtered by the query in the search box, also when a snapshot has just
\* arrived or the query has just been edited.
C16_DisplayedListIsFilterOfCurrent ==
    [][ (CoRendered /\ ~coLoading) =>
            coView'.list = IF IsBlankQuery(searchQuery) THEN visitors
                           ELSE SelectSeq(visitors, MatchesQuery) ]_vars

\* C17: a screen never has more than one listener registered, and once the screens are
\* torn down none of their listeners is registered any more.
C17_SubscriptionsReleased ==
    /\ Len(listeners) <= 1
    /\ Len(coListeners) <= 1
    /\ Len(dashListeners) <= 1
    /\ ~SignedIn => (listeners = <<>> /\ coListeners = <<>> /\ dashListeners = <<>>)

\* C18: in every state of the collection a record is marked checked out exactly when it
\* has a timeOut, whatever check-ins, edits and check-outs have been sent, landed or
\* failed.
C18_CheckedOutIffTimeOut ==
    \A k \in 1..Len(db) : db[k].isCheckedOut = (db[k].timeOut # None)

C18_Witness ==
    \E k \in 1..Len(db) :
        /\ db[k].isCheckedOut
        /\ db[k].timeOut = Some(Now0 + MsPerMinute)
        /\ db[k].updatedBy = Some(CurrentUser)
        /\ db[k].timeIn = Now0

\* C19: once a record carries timeOut, isCheckedOut and checkedOutBy, no later step
\* changes any of the three.
C19_CheckedOutOnce ==
    [][ \A k \in 1..Len(db) :
            db[k].isCheckedOut =>
                /\ db'[k].isCheckedOut
                /\ db'[k].timeOut = db[k].timeOut
                /\ db'[k].checkedOutBy = db[k].checkedOutBy ]_vars

\* A step in which the update of an edit reached the collection or failed.
EditSettled == \E w \in inFlight : w.op = "edit" /\ inFlight' = inFlight \ {w}

\* C20: the update of an edit leaves id, timeIn, timeOut, isCheckedOut, visitorType,
\* refNumber, tagNotGiven and checkedInBy of every record as they were.
C20_EditLeavesIdentityAndLifecycle ==
    [][ EditSettled =>
            /\ Len(db') = Len(db)
            /\ \A k \in 1..Len(db) :
                  /\ db'[k].id = db[k].id
                  /\ db'[k].timeIn = db[k].timeIn
                  /\ db'[k].timeOut = db[k].timeOut
                  /\ db'[k].isCheckedOut = db[k].isCheckedOut
                  /\ db'[k].visitorType = db[k].visitorType
                  /\ db'[k].refNumber = db[k].refNumber
                  /\ db'[k].tagNotGiven = db[k].tagNotGiven
                  /\ db'[k].checkedInBy = db[k].checkedInBy ]_vars

C20_Witness ==
    \E k \in 1..Len(db) :
        /\ db[k].updatedAt = Some(Now0 + MsPerMinute)
        /\ db[k].visitorName = <<"J", "a", "n", "e", " ", "D">>
        /\ db[k].tagNumber = Some(<<"T", "9">>)
        /\ db[k].refNumber = Bob.refNumber
        /\ db[k].tagNotGiven = Some(TRUE)
        /\ db[k].isCheckedOut
        /\ db[k].timeOut = Some(Now0)

\* C21: a stored record carries refNumber only when its visitorType is "vehicle",
\* whatever was typed and toggled on the check-in form and whatever edits followed.
C21_RefNumberOnlyForVehicles ==
    \A i \in 1..Len(db) : db[i].refNumber # None => db[i].visitorType = "vehicle"

\* A vehicle checked in with its plate has since been edited and still carries the plate.
C21_Witness ==
    \E i \in 1..Len(db) :
        /\ db[i].visitorType = "vehicle"
        /\ db[i].refNumber = Some(<<"K", "A", "A", "1">>)
        /\ db[i].updatedAt # None

\* What a stored tagNumber can be: absent, the placeholder, empty, or a number.
TagNumbers == { None, Some(<<>>), Some(NotApplicable), Some(<<"T", "9">>) }

\* C22: for a record whose tagNotGiven is true the value of tagNumber is ignored: with
\* any other tagNumber the card shows the same tag line, the 'With Tags' count is the
\* same, and the record matches the search query exactly when it did before.
C22_TagNumberIgnoredWhenNotGiven ==
    \A i \in 1..Len(db) :
        db[i].tagNotGiven = Some(TRUE) =>
            \A t \in TagNumbers :
                LET other == [ db[i] EXCEPT !.tagNumber = t ]
                IN  /\ GetTagDisplay(other) = GetTagDisplay(db[i])
                    /\ WithTagsCount(<<other>>) = WithTagsCount(<<db[i]>>)
                    /\ MatchesQuery(other) <=> MatchesQuery(db[i])

\* C23: whatever the shape of timeIn, every screen that has read it holds the point in
\* time it denotes, and for null or unparseable input the time of the read; no screen
\* ever holds an invalid date.
C23_SameValidPointInTime ==
    \A screen \in Screens :
        normalized[screen] # None =>
            LET read == normalized[screen][1]
                value == rawTimeIn[1]
            IN  /\ read.date # InvalidDate
                /\ read.date = IF value.ms # None THEN value.ms ELSE Some(read.at)

\* C24: for the records of the collection and the current time, the 'Overdue' number
\* calculateStats gives the Dashboard is the size of the overdue set of the Alerts
\* screen, the checked-in visitors more than 12 hours in.
C24_DashboardOverdueIsAlertSetSize ==
    CalculateStats(db).overdue = Len(SelectSeq(ActiveVisitors(db), IsOverdue))

\* The offline write of cleanupPresence is still on its way.
CleanupWriteInFlight ==
    \E i \in 1..Len(rtdbWrites) : rtdbWrites[i].by = "cleanup"

\* C25: the offline write of cleanupPresence has settled before signOut(auth) is
\* called, so it is never on its way while signOut runs or after the user is signed out.
C25_OfflineWriteSettledBeforeSignOut ==
    (signOutPc = "signOut" \/ authUser = None) => ~CleanupWriteInFlight

\* C26: while the user is signed out no connection event sends a write that sets
\* status/{uid} to online, and no listener of the signed-out user is left registered.
C26_NoOnlineWriteAfterSignOut ==
    [][authUser = None /\ authUser' = None =>
          /\ \A i \in 1..Len(rtdbWrites') :
                 rtdbWrites'[i].state = "online" =>
                     \E j \in 1..Len(rtdbWrites) : rtdbWrites[j] = rtdbWrites'[i]
          /\ presenceListeners' = <<>>]_vars

\* C27: the navigator shows nothing before the first auth-state callback; once the
\* state set by a callback has been rendered it shows Main exactly when the most recent
\* callback delivered a user and Login exactly when it delivered null; it never
\* renders Main with a null user.
C27_NavigatorFollowsAuthState ==
    /\ navShown \in { "nothing", "Login", "Main" }
    /\ lastDelivered = None => navShown = "nothing"
    /\ ~navPending =>
          /\ navShown = "nothing" <=> lastDelivered = None
          /\ navShown = "Login" <=> lastDelivered = Some(None)
          /\ navShown = "Main" <=> (lastDelivered # None /\ lastDelivered # Some(None))
          /\ navShown = "Main" => navUser # None

\* After a sign-out the Login screen is shown again: the last callback delivered null.
C27_Witness ==
    /\ navShown = "Login"
    /\ ~navPending
    /\ lastDelivered = Some(None)
    /\ status = "offline"

\* C30: a write of a login to an existing users/{uid} document changes lastLoginAt
\* only: role, createdAt, email and displayName stay, whatever other logins and writers
\* do in between.
C30_LoginChangesOnlyLastLoginAt ==
    [][usersDoc # None /\ usersDoc' # usersDoc =>
          /\ usersDoc' # None
          /\ usersDoc'[1].role = usersDoc[1].role
          /\ usersDoc'[1].createdAt = usersDoc[1].createdAt
          /\ usersDoc'[1].email = usersDoc[1].email
          /\ usersDoc'[1].displayName = usersDoc[1].displayName]_vars

\* The text is empty or white space only.
IsBlank(text) == \A i \in 1..Len(text) : text[i] \in WhiteSpace

\* handleCheckIn has to refuse the form as it stands.
MustBeRefused ==
    \/ \E field \in { "visitorName", "phoneNumber", "idNumber", "residence",
                       "institutionOccupation", "purposeOfVisit" } : IsBlank(formData[field])
    \/ gender = <<>>
    \/ visitorType = "vehicle" /\ IsBlank(formData.refNumber)
    \/ ~tagNotGiven /\ IsBlank(formData.tagNumber)
    \/ authUser = None

\* C28: while a required field is blank after trimming, no gender is chosen, a vehicle
\* has no plate, a tag is expected and missing, or nobody is signed in, no step sends a
\* visitor record or sets loading; and every step that puts up the error Alert, a
\* refused press or a failed addDoc, leaves the form and the collection as they were
\* and loading false.
C28_RefusedCheckInWritesNothing ==
    [][/\ (MustBeRefused /\ ~ciLoading) => (inFlight' = inFlight /\ db' = db /\ ~ciLoading')
       /\ (ciAlert = "none" /\ ciAlert' = "error") =>
              /\ db' = db
              /\ ~ciLoading'
              /\ <<visitorType, gender, tagNotGiven, formData>>' =
                     <<visitorType, gender, tagNotGiven, formData>>]_vars

\* The Check In press was refused for a name of white space only, all else filled, and
\* nothing was sent or stored.
C28_Witness ==
    /\ ciAlert = "error"
    /\ formData.visitorName = <<" ">>
    /\ \A field \in { "phoneNumber", "idNumber", "residence", "institutionOccupation",
                       "purposeOfVisit", "tagNumber" } : ~IsBlank(formData[field])
    /\ gender # <<>>
    /\ authUser # None
    /\ ~ciLoading
    /\ inFlight = {}
    /\ db = <<>>

\* C29: while the update of a check-out of visitor v is on its way, checkingOut names
\* v, so v's button is disabled and shows the spinner, whatever check-outs of other
\* visitors start or complete meanwhile.
C29_ButtonDisabledWhileInFlight ==
    \A w \in inFlight : w.op = "checkOut" => checkingOut = Some(w.id)

============================================================================
